---- MODULE Spec2Model ----
(***************************************************************************)
(* A model of the earth_33 survival simulation engine: world generation,   *)
(* environment dynamics, organism physiology, hazards, hunters, trophy,    *)
(* observation building and the Environment orchestrator.                  *)
(*                                                                         *)
(* Number representation.  The program computes with Python floats; the    *)
(* model uses fixed point with three decimals ("milli"): a vital of 80.0   *)
(* is 80000, a probability 0.3 is 300, 37.0 degC is 37000, dt = 1.0 h is   *)
(* 1000.  Products of two milli quantities are divided by 1000 (floor).    *)
(* Elevation is kept in whole metres, distances in whole cells.            *)
(*                                                                         *)
(* Randomness.  Every random draw of the program goes through one          *)
(* numpy Generator per Environment (world.rng).  The generator is modelled *)
(* as a counter-based generator: its state is [key, ctr], the i-th draw    *)
(* after the current state is a fixed function of (key, ctr + i).          *)
(***************************************************************************)
EXTENDS Integers, Sequences, FiniteSets, TLC

VARIABLES env, env2, obs, result, ret

vars == <<env, env2, obs, result, ret>>

(***************************************************************************)
(* Bounds of the model                                                     *)
(***************************************************************************)
MapW == 11

MapH == 11

MaxSteps == 2

(***************************************************************************)
(* Arithmetic helpers                                                      *)
(***************************************************************************)
Min(a, b) == IF a <= b THEN a ELSE b

Max(a, b) == IF a >= b THEN a ELSE b

Abs(a) == IF a >= 0 THEN a ELSE -a

clamp(value, lo, hi) == Max(lo, Min(hi, value))

\* Val([x \in {e} |-> body]) is body with x bound to the value of e; e is
\* computed once, however often body uses x (a local variable of the code)
Val(f) == f[CHOOSE v \in DOMAIN f : TRUE]

\* a * b for two milli quantities
MulM(a, b) == (a * b) \div 1000

\* round(v, 1) and round(v, 2) of a milli quantity, also the {:.1f} and {:.2f}
\* of a format string
Round1(v) == ((v + 50) \div 100) * 100

Round2(v) == ((v + 5) \div 10) * 10

\* an event message: a fixed text, or an f-string given by its template and the
\* value formatted into it
Text(text) == [text |-> text]

Message(template, value) == [text |-> template, value |-> value]

\* math.sin of an angle given in whole degrees, result in milli
\* (Bhaskara's rational approximation on each half period)
RECURSIVE Sin(_)
Sin(deg) ==
    LET d == deg % 360
    IN IF d <= 180
       THEN (4000 * d * (180 - d)) \div (40500 - d * (180 - d))
       ELSE -Sin(d - 180)

\* math.exp(-x) for x >= 0 in milli, result in milli:
\* exp(-x) = 2^-k * exp(-r) with x = k*ln2 + r, exp(-r) by its Taylor series
Pow2(k) == IF k >= 20 THEN 1048576 ELSE 2 ^ k

ExpNeg(xm) ==
    LET k == xm \div 693
        r == xm % 693
        e == 1000 - r + (r * r) \div 2000 - (r * r * r) \div 6000000
    IN IF k >= 20 THEN 0 ELSE e \div Pow2(k)

(***************************************************************************)
(* numpy.random.Generator                                                  *)
(***************************************************************************)
\* np.random.default_rng() without a seed draws fresh OS entropy
default_rng_unseeded(seed, entropy) == [key |-> entropy, ctr |-> 0]

\* np.random.default_rng(seed): the state is a function of the seed alone
default_rng(seed, entropy) == [key |-> seed, ctr |-> 0]

\* the raw 12-bit output of draw number i after state rng
Raw(rng, i) ==
    LET a == (rng.key * 31337 + (rng.ctr + i) * 7919 + 12345) % 65536
        b == (a * 25173 + 13849) % 65536
        s == (b \div 256) + (b % 256) * 256
        d == (s * 25173 + 13849) % 65536
        e == (d \div 256) + (d % 256) * 256
        f == (e * 20077 + 12345) % 65536
    IN f \div 16

Advance(rng, k) == [rng EXCEPT !.ctr = @ + k]

\* rng.random(): uniform in [0, 1), milli
rng_random(rng, i) == (Raw(rng, i) * 1000) \div 4096

\* rng.integers(lo, hi): uniform integer in lo .. hi-1
rng_integers(rng, i, lo, hi) == lo + (Raw(rng, i) % (hi - lo))

\* rng.uniform(a, b), a and b in milli
rng_uniform(rng, i, a, b) == a + ((b - a) * Raw(rng, i)) \div 4096

\* rng.standard_normal(): the inverse normal CDF on 16 equiprobable bins, milli
ZTable == <<-1860, -1320, -1010, -780, -580, -400, -240, -80,
            80, 240, 400, 580, 780, 1010, 1320, 1860>>

rng_standard_normal(rng, i) == ZTable[(Raw(rng, i) \div 256) + 1]

\* rng.normal(0.0, sigma), sigma in milli
rng_normal(rng, i, sigma) == MulM(sigma, rng_standard_normal(rng, i))

(***************************************************************************)
(* config_io.schema: enums                                                 *)
(***************************************************************************)
\* list(Terrain): terrain_id indexes this list from 0
Terrain == <<"PLAINS", "FOREST", "DESERT", "TUNDRA", "MOUNTAIN", "WATER", "SWAMP">>

Soil == <<"SANDY", "LOAMY", "CLAY", "ROCKY", "PEAT">>

VegetationType == <<"NONE", "GRASS", "SHRUB", "TREES">>

ActionType == {"MOVE_N", "MOVE_S", "MOVE_E", "MOVE_W", "REST", "DRINK",
               "FORAGE", "BUILD_SHELTER", "HIDE", "SIGNAL"}

MoveActions == {"MOVE_N", "MOVE_S", "MOVE_E", "MOVE_W"}

\* a north step of two cells (a faulty variant)
ACTION_DIRECTION_long_north(a) ==
    CASE a = "MOVE_N" -> <<0, -2>>
      [] a = "MOVE_S" -> <<0, 1>>
      [] a = "MOVE_E" -> <<1, 0>>
      [] a = "MOVE_W" -> <<-1, 0>>

\* ACTION_DIRECTION: action -> (dx, dy)
ACTION_DIRECTION(a) ==
    CASE a = "MOVE_N" -> <<0, -1>>
      [] a = "MOVE_S" -> <<0, 1>>
      [] a = "MOVE_E" -> <<1, 0>>
      [] a = "MOVE_W" -> <<-1, 0>>

IndexOf(list, v) == (CHOOSE i \in 1..Len(list) : list[i] = v) - 1

(***************************************************************************)
(* config_io.config: the configuration value                               *)
(***************************************************************************)
DefaultConfig ==
    [map |-> [width |-> MapW, height |-> MapH,
              terrain_weights |-> <<300, 250, 100, 50, 100, 100, 100>>,
              num_lakes |-> 1, num_rivers |-> 1,
              elevation_octaves |-> 4, elevation_scale |-> 50],
     sim |-> [dt_hours |-> 1000, max_steps |-> MaxSteps, observation_radius |-> 3,
              start_hour |-> 6, start_day |-> 80],
     climate |-> [lapse_rate |-> 6500,
                  diurnal_amp |-> <<6000, 4000, 10000, 5000, 7000, 3000, 4000>>,
                  seasonal_amp |-> <<10000, 10000, 8000, 15000, 12000, 6000, 8000>>,
                  terrain_base_temp |-> <<18000, 15000, 30000, -5000, 8000, 16000, 20000>>,
                  temp_noise_sigma |-> 1000],
     physiology |-> [initial_hydration |-> 80000, initial_energy |-> 80000,
                     initial_core_temp |-> 37000, initial_fatigue |-> 10000,
                     initial_injury |-> 0, initial_infection |-> 0,
                     hydration_base_drain |-> 800, energy_base_drain |-> 600,
                     fatigue_base_gain |-> 700, rest_fatigue_recovery |-> 4000,
                     injury_recovery_rate |-> 200, thermal_drift_k |-> 8,
                     death_hydration |-> 0, death_energy |-> 0,
                     death_core_temp_low |-> 30000, death_core_temp_high |-> 42000,
                     death_injury |-> 100000, death_infection |-> 100000],
     hunters |-> [enabled |-> FALSE, count |-> 5, min_detection_radius |-> 3,
                  max_detection_radius |-> 8, chase_speed |-> 2, patrol_speed |-> 1,
                  spawn_margin |-> 15],
     trophy |-> [enabled |-> FALSE, min_distance_from_spawn |-> 25,
                 hint_interval |-> 10, warm_cold_enabled |-> TRUE],
     difficulty |-> [drain_multiplier |-> 1000, hazard_multiplier |-> 1000,
                     wildlife_multiplier |-> 1000, temperature_extremity |-> 1000],
     fog_of_war |-> [enabled |-> FALSE, visibility_radius |-> 5]]

(***************************************************************************)
(* sim.world: terrain tables                                               *)
(***************************************************************************)
\* number of options per terrain in _TERRAIN_SOIL / _TERRAIN_VEG, and the options
_TERRAIN_SOIL == << <<"LOAMY", "CLAY">>, <<"LOAMY", "PEAT">>, <<"SANDY", "ROCKY">>,
                    <<"ROCKY", "PEAT">>, <<"ROCKY">>, <<"CLAY">>, <<"PEAT", "CLAY">> >>

_TERRAIN_VEG == << <<"GRASS", "SHRUB">>, <<"TREES", "SHRUB">>, <<"NONE", "SHRUB">>,
                   <<"GRASS", "NONE">>, <<"NONE", "GRASS">>, <<"NONE">>,
                   <<"GRASS", "SHRUB">> >>

_TERRAIN_WILDLIFE == <<100, 200, 50, 80, 120, 30, 150>>

_TERRAIN_SHELTER == <<50, 400, 20, 50, 250, 0, 100>>

_TERRAIN_MOVE_COST == <<1000, 1300, 1400, 1200, 2000, 3000, 1800>>

\* grids are functions on cell indices 0 .. w*h-1, cell (x, y) at index y*w + x
Cells(w, h) == 0 .. (w * h - 1)

Idx(x, y, w) == y * w + x

CellX(i, w) == i % w

CellY(i, w) == i \div w

SetMin(S) == CHOOSE m \in S : \A n \in S : m <= n

SetMax(S) == CHOOSE m \in S : \A n \in S : m >= n

(***************************************************************************)
(* sim.world._perlin_like_noise                                            *)
(***************************************************************************)
\* one octave: a low-resolution lattice of standard normals, bilinearly upscaled
OctaveLattice(w, scale, freq) == Max(2, (w * scale * freq) \div 1000)

Upscaled(w, h, rng, lw, lh, x, y) ==
    LET rows == (y * (lh - 1) * 1000) \div (h - 1)
        cols == (x * (lw - 1) * 1000) \div (w - 1)
        r0 == rows \div 1000
        c0 == cols \div 1000
        r1 == clamp(r0 + 1, 0, lh - 1)
        c1 == clamp(c0 + 1, 0, lw - 1)
        dr == rows - r0 * 1000
        dc == cols - c0 * 1000
        noise(r, c) == rng_standard_normal(rng, r * lw + c)
        top == (noise(r0, c0) * (1000 - dc) + noise(r0, c1) * dc) \div 1000
        bot == (noise(r1, c0) * (1000 - dc) + noise(r1, c1) * dc) \div 1000
    IN (top * (1000 - dr) + bot * dr) \div 1000

RECURSIVE OctaveSum(_, _, _, _, _, _)
OctaveSum(w, h, rng, octave, octaves, scale) ==
    IF octave >= octaves
    THEN [grid |-> [i \in Cells(w, h) |-> 0], rng |-> rng]
    ELSE LET freq == 2 ^ octave
             lw == OctaveLattice(w, scale, freq)
             lh == OctaveLattice(h, scale, freq)
         IN Val([rest \in {OctaveSum(w, h, Advance(rng, lw * lh), octave + 1, octaves, scale)} |->
                [grid |-> [i \in Cells(w, h) |->
                              Upscaled(w, h, rng, lw, lh, CellX(i, w), CellY(i, w)) \div freq
                              + rest.grid[i]],
                 rng |-> rest.rng]])

\* returns the noise grid normalised to [0, 1] (milli) and the advanced generator
_perlin_like_noise(w, h, rng, octaves, scale) ==
    Val([s \in {OctaveSum(w, h, rng, 0, octaves, scale)} |->
    Val([lo \in {SetMin({s.grid[i] : i \in Cells(w, h)})} |->
    Val([hi \in {SetMax({s.grid[i] : i \in Cells(w, h)})} |->
        [grid |-> IF hi - lo > 0
                  THEN [i \in Cells(w, h) |-> ((s.grid[i] - lo) * 1000) \div (hi - lo)]
                  ELSE s.grid,
         rng |-> s.rng]])])])

(***************************************************************************)
(* sim.world.WorldState                                                    *)
(***************************************************************************)
in_bounds(world, x, y) == 0 <= x /\ x < world.w /\ 0 <= y /\ y < world.h

terrain_at(world, x, y) == Terrain[world.terrain_id[Idx(x, y, world.w)] + 1]

_gen_elevation(config, rng) ==
    Val([n \in {_perlin_like_noise(config.map.width, config.map.height, rng,
                                    config.map.elevation_octaves,
                                    config.map.elevation_scale)} |->
        [grid |-> [i \in DOMAIN n.grid |-> n.grid[i] * 3], rng |-> n.rng]])

\* np.searchsorted(cum, val): the number of entries of cum strictly below val
_gen_terrain(config, rng) ==
    LET weights == config.map.terrain_weights
        total == weights[1] + weights[2] + weights[3] + weights[4]
                 + weights[5] + weights[6] + weights[7]
        RECURSIVE cumw(_)
        cumw(k) == IF k = 0 THEN 0 ELSE cumw(k - 1) + weights[k]
    IN Val([cum \in {[k \in 1..7 |-> (cumw(k) * 1000) \div total]} |->
       Val([n \in {_perlin_like_noise(config.map.width, config.map.height, rng, 3, 80)} |->
           LET searchsorted(val) == Cardinality({k \in 1..7 : cum[k] < val})
           IN [grid |-> [i \in DOMAIN n.grid |->
                            Min(searchsorted(n.grid[i]), Len(Terrain) - 1)],
               rng |-> n.rng]])])

\* lakes: circular blobs around a random centre (three draws per lake)
RECURSIVE PlaceLakes(_, _, _, _, _, _)
PlaceLakes(k, w, h, terrain_id, water_mask, rng) ==
    IF k = 0
    THEN [terrain_id |-> terrain_id, water_mask |-> water_mask, rng |-> rng]
    ELSE LET cy == rng_integers(rng, 0, 5, h - 5)
             cx == rng_integers(rng, 1, 5, w - 5)
             radius == rng_integers(rng, 2, 2, 6)
             water_idx == IndexOf(Terrain, "WATER")
             painted(i) ==
                 LET dx == CellX(i, w) - cx
                     dy == CellY(i, w) - cy
                 IN Abs(dx) <= radius /\ Abs(dy) <= radius
                    /\ dx * dx + dy * dy <= radius * radius
         IN PlaceLakes(k - 1, w, h,
                       [i \in Cells(w, h) |-> IF painted(i) THEN water_idx ELSE terrain_id[i]],
                       [i \in Cells(w, h) |-> painted(i) \/ water_mask[i]],
                       Advance(rng, 3))

\* the inner loop of a river step over the four neighbours (dy, dx):
\* a neighbour is taken when it is lower than the best so far, or else with
\* probability 0.3 (the draw is made only when it is not lower)
RiverDirs == << <<-1, 0>>, <<1, 0>>, <<0, -1>>, <<0, 1>> >>

RECURSIVE RiverPick(_, _, _, _, _, _, _, _, _)
RiverPick(k, w, h, elevation, x, y, best_e, best_d, rng) ==
    IF k > 4
    THEN [best_d |-> best_d, rng |-> rng]
    ELSE LET ny == y + RiverDirs[k][1]
             nx == x + RiverDirs[k][2]
             inb == 0 <= ny /\ ny < h /\ 0 <= nx /\ nx < w
         IN IF ~inb
            THEN RiverPick(k + 1, w, h, elevation, x, y, best_e, best_d, rng)
            ELSE IF elevation[Idx(nx, ny, w)] < best_e
            THEN RiverPick(k + 1, w, h, elevation, x, y,
                           elevation[Idx(nx, ny, w)], RiverDirs[k], rng)
            ELSE IF rng_random(rng, 0) < 300
            THEN RiverPick(k + 1, w, h, elevation, x, y,
                           elevation[Idx(nx, ny, w)], RiverDirs[k], Advance(rng, 1))
            ELSE RiverPick(k + 1, w, h, elevation, x, y, best_e, best_d, Advance(rng, 1))

RECURSIVE RiverWalk(_, _, _, _, _, _, _, _, _)
RiverWalk(n, w, h, elevation, x, y, terrain_id, water_mask, rng) ==
    IF n = 0 \/ ~(0 <= y /\ y < h /\ 0 <= x /\ x < w)
    THEN [terrain_id |-> terrain_id, water_mask |-> water_mask, rng |-> rng]
    ELSE LET i == Idx(x, y, w)
         IN Val([pick \in {RiverPick(1, w, h, elevation, x, y, elevation[i], <<0, 1>>, rng)} |->
                RiverWalk(n - 1, w, h, elevation, x + pick.best_d[2], y + pick.best_d[1],
                          [terrain_id EXCEPT ![i] = IndexOf(Terrain, "WATER")],
                          [water_mask EXCEPT ![i] = TRUE],
                          pick.rng)])

RECURSIVE PlaceRivers(_, _, _, _, _, _, _)
PlaceRivers(k, w, h, elevation, terrain_id, water_mask, rng) ==
    IF k = 0
    THEN [terrain_id |-> terrain_id, water_mask |-> water_mask, rng |-> rng]
    ELSE LET y == rng_integers(rng, 0, 0, h)
             x == rng_integers(rng, 1, 0, w)
         IN Val([r \in {RiverWalk(Max(w, h), w, h, elevation, x, y, terrain_id, water_mask,
                                  Advance(rng, 2))} |->
                PlaceRivers(k - 1, w, h, elevation, r.terrain_id, r.water_mask, r.rng)])

_place_water_bodies(config, elevation, terrain_id, rng) ==
    LET w == config.map.width
        h == config.map.height
    IN Val([lakes \in {PlaceLakes(config.map.num_lakes, w, h, terrain_id,
                                  [i \in Cells(w, h) |-> FALSE], rng)} |->
           PlaceRivers(config.map.num_rivers, w, h, elevation,
                       lakes.terrain_id, lakes.water_mask, lakes.rng)])

\* per-cell properties from the terrain-keyed tables; every cell has a block of
\* five draws: soil, vegetation type, biomass, wildlife jitter, shelter jitter
_init_cell_properties(config, terrain_id, water_mask, rng) ==
    LET w == config.map.width
        h == config.map.height
        t(i) == terrain_id[i] + 1
        soil(i) == _TERRAIN_SOIL[t(i)][rng_integers(rng, 5 * i, 0, Len(_TERRAIN_SOIL[t(i)])) + 1]
        veg(i) == _TERRAIN_VEG[t(i)][rng_integers(rng, 5 * i + 1, 0, Len(_TERRAIN_VEG[t(i)])) + 1]
        biomass(i) ==
            CASE veg(i) = "NONE" -> 0
              [] veg(i) = "GRASS" -> rng_uniform(rng, 5 * i + 2, 100, 400)
              [] veg(i) = "SHRUB" -> rng_uniform(rng, 5 * i + 2, 200, 600)
              [] OTHER -> rng_uniform(rng, 5 * i + 2, 500, 900)
    IN [soil_id |-> [i \in Cells(w, h) |-> IndexOf(Soil, soil(i))],
        vegetation_type_id |-> [i \in Cells(w, h) |-> IndexOf(VegetationType, veg(i))],
        vegetation_biomass |-> [i \in Cells(w, h) |-> biomass(i)],
        wildlife_risk |-> [i \in Cells(w, h) |->
            clamp(MulM(_TERRAIN_WILDLIFE[t(i)], rng_uniform(rng, 5 * i + 3, 500, 1500)), 0, 1000)],
        shelter_quality |-> [i \in Cells(w, h) |->
            clamp(MulM(_TERRAIN_SHELTER[t(i)], rng_uniform(rng, 5 * i + 4, 500, 1500)), 0, 1000)],
        movement_cost |-> [i \in Cells(w, h) |-> _TERRAIN_MOVE_COST[t(i)]],
        water_availability |-> [i \in Cells(w, h) |-> IF water_mask[i] THEN 1000 ELSE 0],
        rng |-> Advance(rng, 5 * w * h)]

\* neighbours by cell index alone, running over the row ends (a faulty variant)
Neighbours4_across_rows(i, w, h) ==
    {j \in {i - 1, i + 1, i - w, i + w} : 0 <= j /\ j < w * h}

\* the 4-connected neighbours of cell i inside the grid
Neighbours4(i, w, h) ==
    {Idx(CellX(i, w) + d[1], CellY(i, w) + d[2], w) :
        d \in {d \in {<<0, -1>>, <<0, 1>>, <<-1, 0>>, <<1, 0>>} :
                  /\ 0 <= CellX(i, w) + d[1] /\ CellX(i, w) + d[1] < w
                  /\ 0 <= CellY(i, w) + d[2] /\ CellY(i, w) + d[2] < h}}

\* multi-source breadth-first search, one layer of the queue at a time
RECURSIVE Bfs(_, _, _, _, _)
Bfs(dist, frontier, d, w, h) ==
    IF frontier = {}
    THEN dist
    ELSE Val([next \in {{c \in Cells(w, h) :
                            d + 1 < dist[c] /\ Neighbours4(c, w, h) \cap frontier # {}}} |->
             Bfs([c \in Cells(w, h) |-> IF c \in next THEN d + 1 ELSE dist[c]],
                 next, d + 1, w, h)])

_compute_dist_to_water(w, h, water_mask) ==
    Bfs([c \in Cells(w, h) |-> IF water_mask[c] THEN 0 ELSE 9999],
        {c \in Cells(w, h) : water_mask[c]}, 0, w, h)

WorldState(config, seed, entropy) ==
    LET w == config.map.width
        h == config.map.height
    IN Val([elev \in {_gen_elevation(config, default_rng(seed, entropy))} |->
       Val([terr \in {_gen_terrain(config, elev.rng)} |->
       Val([water \in {_place_water_bodies(config, elev.grid, terr.grid, terr.rng)} |->
       Val([props \in {_init_cell_properties(config, water.terrain_id, water.water_mask,
                                            water.rng)} |->
           [w |-> w, h |-> h, rng |-> props.rng,
            elevation |-> elev.grid,
            terrain_id |-> water.terrain_id,
            soil_id |-> props.soil_id,
            water_mask |-> water.water_mask,
            water_availability |-> props.water_availability,
            vegetation_biomass |-> props.vegetation_biomass,
            vegetation_type_id |-> props.vegetation_type_id,
            wildlife_risk |-> props.wildlife_risk,
            shelter_quality |-> props.shelter_quality,
            movement_cost |-> props.movement_cost,
            air_temperature_c |-> [i \in Cells(w, h) |-> 0],
            humidity |-> [i \in Cells(w, h) |-> 0],
            precip_prob |-> [i \in Cells(w, h) |-> 0],
            dist_to_water |-> _compute_dist_to_water(w, h, water.water_mask)]])])])])

\* find_spawn_point: up to 1000 attempts of two draws each, then the map centre
find_spawn_point(world) ==
    LET px(k) == rng_integers(world.rng, 2 * k, 5, world.w - 5)
        py(k) == rng_integers(world.rng, 2 * k + 1, 5, world.h - 5)
        ok(k) == terrain_at(world, px(k), py(k)) \notin {"WATER", "MOUNTAIN"}
    IN IF \E k \in 0..999 : ok(k)
       THEN Val([k \in {CHOOSE k \in 0..999 : ok(k) /\ \A j \in 0..(k - 1) : ~ok(j)} |->
                [x |-> px(k), y |-> py(k), rng |-> Advance(world.rng, 2 * (k + 1))]])
       ELSE [x |-> world.w \div 2, y |-> world.h \div 2, rng |-> Advance(world.rng, 2000)]

(***************************************************************************)
(* sim.dynamics                                                            *)
(***************************************************************************)
\* get_time_info: hour and day of year as the integers the program reports
get_time_info(step, config) ==
    LET total_hours == config.sim.start_hour * 1000 + step * config.sim.dt_hours
    IN [step |-> step,
        day_of_year |-> ((config.sim.start_day * 1000 + total_hours \div 24) % 365000) \div 1000,
        hour |-> (total_hours % 24000) \div 1000,
        total_hours |-> total_hours]

\* hour of day in milli-hours and day of year in milli-days, as update_environment
\* derives them from the step number
HourOf(step, config) ==
    (config.sim.start_hour * 1000 + step * config.sim.dt_hours) % 24000

DayOf(step, config) ==
    (config.sim.start_day * 1000
        + (config.sim.start_hour * 1000 + step * config.sim.dt_hours) \div 24) % 365000

\* one independent normal draw per cell, in row-major order
_update_temperature(world, hour, day, config) ==
    LET cc == config.climate
        temp_ext == config.difficulty.temperature_extremity
        t(i) == world.terrain_id[i] + 1
        base(i) == cc.terrain_base_temp[t(i)] - (cc.lapse_rate * world.elevation[i]) \div 1000
        seasonal(i) == MulM(MulM(cc.seasonal_amp[t(i)], temp_ext), Sin((day * 360) \div 365000))
        diurnal(i) == MulM(MulM(cc.diurnal_amp[t(i)], temp_ext), Sin((hour * 15) \div 1000 - 90))
        noise(i) == rng_normal(world.rng, i, cc.temp_noise_sigma)
    IN [world EXCEPT
          !.air_temperature_c = [i \in Cells(world.w, world.h) |->
                                    base(i) + seasonal(i) + diurnal(i) + noise(i)],
          !.rng = Advance(world.rng, world.w * world.h)]

\* base humidity by terrain, in the order of list(Terrain)
BaseHumidity == <<400, 600, 150, 350, 300, 900, 800>>

_update_humidity(world, config) ==
    [world EXCEPT
       !.humidity = [i \in Cells(world.w, world.h) |->
           Min(1000, BaseHumidity[world.terrain_id[i] + 1]
                        + MulM(300, ExpNeg(world.dist_to_water[i] * 200)))]]

\* _update_precipitation writing into the dist_to_water grid (a faulty variant)
_update_precipitation_wrong_grid(world, day, config) ==
    [world EXCEPT
       !.dist_to_water = [i \in Cells(world.w, world.h) |-> MulM(world.humidity[i], 300)]]

_update_precipitation(world, day, config) ==
    LET season_factor == 500 + MulM(500, Sin((day * 360) \div 365000 - 45))
    IN [world EXCEPT
          !.precip_prob = [i \in Cells(world.w, world.h) |->
              MulM(MulM(world.humidity[i], season_factor), 300)]]

_update_water_availability(world, config) ==
    LET proximity(i) == MulM(600, ExpNeg(world.dist_to_water[i] * 250))
        rain_contrib(i) == MulM(world.precip_prob[i], 400)
        evap(i) == MulM(Max(0, (world.air_temperature_c[i] - 15000) \div 40), 300)
    IN [world EXCEPT
          !.water_availability = [i \in Cells(world.w, world.h) |->
              IF world.water_mask[i]
              THEN 1000
              ELSE Max(0, Min(1000, proximity(i) + rain_contrib(i) - evap(i)))]]

\* _SOIL_FACTOR, indexed by Soil enum order
_SOIL_FACTOR == <<600, 1000, 800, 300, 700>>

_update_vegetation(world, dt, config) ==
    LET grown(i, biomass) ==
            LET water_f == world.water_availability[i]
                temp == world.air_temperature_c[i]
                dc == (temp - 20000) \div 10
                temp_f == ExpNeg((dc * dc) \div 4500)
                soil_f == _SOIL_FACTOR[world.soil_id[i] + 1]
                growth_rate == MulM(MulM(MulM(soil_f, water_f), temp_f), 10)
                b1 == biomass + MulM(MulM(MulM(growth_rate, biomass), 1000 - biomass), dt)
                b2 == IF water_f < 100 /\ temp > 30000 THEN b1 - MulM(5, dt) ELSE b1
            IN Max(0, Min(1000, b2))
        cell(i) ==
            LET biomass == world.vegetation_biomass[i]
            IN IF biomass <= 0
               THEN IF world.water_availability[i] > 300 THEN grown(i, 10) ELSE biomass
               ELSE grown(i, biomass)
    IN [world EXCEPT !.vegetation_biomass = [i \in Cells(world.w, world.h) |-> cell(i)]]

update_environment(world, step, config) ==
    LET hour == HourOf(step, config)
        day == DayOf(step, config)
        w1 == _update_temperature(world, hour, day, config)
        w2 == _update_humidity(w1, config)
        w3 == _update_precipitation(w2, day, config)
        w4 == _update_water_availability(w3, config)
    IN _update_vegetation(w4, config.sim.dt_hours, config)

(***************************************************************************)
(* sim.physiology                                                          *)
(***************************************************************************)
_ACTIVITY_MULT(action) ==
    CASE action \in MoveActions -> 1500
      [] action = "REST" -> 700
      [] action = "DRINK" -> 900
      [] action = "FORAGE" -> 1300
      [] action = "BUILD_SHELTER" -> 1400
      [] action = "HIDE" -> 800
      [] action = "SIGNAL" -> 800
      [] OTHER -> 1000

\* OrganismState.from_config
OrganismState(cfg, x, y) ==
    [x |-> x, y |-> y,
     hydration |-> cfg.initial_hydration,
     energy |-> cfg.initial_energy,
     core_temp_c |-> cfg.initial_core_temp,
     fatigue |-> cfg.initial_fatigue,
     injury |-> cfg.initial_injury,
     infection |-> cfg.initial_infection,
     alive |-> TRUE,
     cause_of_death |-> "ALIVE",
     age_steps |-> 0,
     has_shelter |-> FALSE,
     shelter_durability |-> 0]

\* OrganismState.to_dict
OrganismState_to_dict(state) ==
    [pos |-> [x |-> state.x, y |-> state.y],
     hydration |-> Round1(state.hydration),
     energy |-> Round1(state.energy),
     core_temp_c |-> Round1(state.core_temp_c),
     fatigue |-> Round1(state.fatigue),
     injury |-> Round1(state.injury),
     infection |-> Round1(state.infection),
     alive |-> state.alive,
     cause_of_death |-> state.cause_of_death,
     age_steps |-> state.age_steps,
     has_shelter |-> state.has_shelter]

\* apply_physiology without its final clamps (a faulty variant)
ClampVitalsUnclamped(state) == state

\* the final clamp of the five bounded vitals
ClampVitals(state) ==
    [state EXCEPT !.hydration = clamp(@, 0, 100000),
                  !.energy = clamp(@, 0, 100000),
                  !.fatigue = clamp(@, 0, 100000),
                  !.injury = clamp(@, 0, 100000),
                  !.infection = clamp(@, 0, 100000)]

apply_physiology(state, action, air_temp, shelter_active, movement_cost, dt, cfg, difficulty_mult) ==
    LET base_mult == _ACTIVITY_MULT(action)
        act_mult == IF action \in MoveActions THEN MulM(base_mult, movement_cost) ELSE base_mult
        heat_mult == MulM(Max(0, (air_temp - 30000) \div 10), 800)
        h_drain == MulM(MulM(MulM(cfg.hydration_base_drain, act_mult) + heat_mult, dt),
                        difficulty_mult)
        e_drain == MulM(MulM(MulM(cfg.energy_base_drain, act_mult), dt), difficulty_mult)
        f_change == IF action = "REST"
                    THEN -MulM(cfg.rest_fatigue_recovery, dt)
                    ELSE MulM(MulM(MulM(cfg.fatigue_base_gain, act_mult), dt), difficulty_mult)
        fatigue1 == state.fatigue + f_change
        shelter_f == IF shelter_active THEN 300 ELSE 1000
        temp_drift == MulM(((air_temp - state.core_temp_c) * cfg.thermal_drift_k * shelter_f)
                              \div 1000000, dt)
        healed == action = "REST" /\ fatigue1 < 40000
        injury1 == IF healed
                   THEN state.injury - MulM(cfg.injury_recovery_rate, dt)
                   ELSE state.injury
        infected == injury1 > 20000 /\ (air_temp < 5000 \/ air_temp > 38000)
        infection1 == IF infected
                      THEN state.infection + MulM(MulM(300, injury1 \div 100), dt)
                      ELSE state.infection
    IN [state |-> ClampVitals([state EXCEPT !.hydration = @ - h_drain,
                                            !.energy = @ - e_drain,
                                            !.fatigue = fatigue1,
                                            !.core_temp_c = @ + temp_drift,
                                            !.injury = injury1,
                                            !.infection = infection1]),
        deltas |-> [hydration |-> -h_drain, energy |-> -e_drain, fatigue |-> f_change,
                    core_temp |-> temp_drift]
                   @@ (IF healed THEN [injury |-> -MulM(cfg.injury_recovery_rate, dt)]
                       ELSE [k \in {} |-> 0])
                   @@ (IF infected THEN [infection |-> infection1 - state.infection]
                       ELSE [k \in {} |-> 0])]

\* the threshold cascade with trauma tested first (a faulty ordering)
DeathCauseTraumaFirst(state, cfg) ==
    IF state.injury >= cfg.death_injury THEN "TRAUMA"
    ELSE IF state.hydration <= cfg.death_hydration THEN "DEHYDRATION"
    ELSE IF state.energy <= cfg.death_energy THEN "STARVATION"
    ELSE IF state.core_temp_c <= cfg.death_core_temp_low THEN "HYPOTHERMIA"
    ELSE IF state.core_temp_c >= cfg.death_core_temp_high THEN "HYPERTHERMIA"
    ELSE IF state.infection >= cfg.death_infection THEN "INFECTION"
    ELSE "ALIVE"

\* the cause set by check_death, or "ALIVE" when no threshold is crossed
DeathCause(state, cfg) ==
    IF state.hydration <= cfg.death_hydration THEN "DEHYDRATION"
    ELSE IF state.energy <= cfg.death_energy THEN "STARVATION"
    ELSE IF state.core_temp_c <= cfg.death_core_temp_low THEN "HYPOTHERMIA"
    ELSE IF state.core_temp_c >= cfg.death_core_temp_high THEN "HYPERTHERMIA"
    ELSE IF state.injury >= cfg.death_injury THEN "TRAUMA"
    ELSE IF state.infection >= cfg.death_infection THEN "INFECTION"
    ELSE "ALIVE"

\* check_death: the state after the call and the returned bool
check_death(state, cfg) ==
    LET cause == DeathCause(state, cfg)
        after == IF cause # "ALIVE"
                 THEN [state EXCEPT !.alive = FALSE, !.cause_of_death = cause]
                 ELSE state
    IN [state |-> after, dead |-> ~after.alive]

(***************************************************************************)
(* sim.hazards                                                             *)
(***************************************************************************)
_hazard_time_multiplier(hour) ==
    IF (5 <= hour /\ hour <= 7) \/ (18 <= hour /\ hour <= 20) THEN 1500
    ELSE IF 22 <= hour \/ hour <= 4 THEN 1800
    ELSE 1000

_stealth_modifier(action) ==
    IF action = "HIDE" THEN 600
    ELSE IF action = "REST" THEN 300
    ELSE IF action \in {"BUILD_SHELTER", "FORAGE"} THEN -100
    ELSE 0

\* returns the organism, the advanced generator and the event fields
check_wildlife_encounter(state, wildlife_risk, terrain, hour, action, rng, hazard_multiplier) ==
    LET time_mult == _hazard_time_multiplier(hour)
        stealth == _stealth_modifier(action)
        p0 == MulM(MulM(MulM(MulM(wildlife_risk, time_mult), 1000 - stealth), 300),
                   hazard_multiplier)
        p == Max(0, Min(1000, p0))
        encounter == rng_random(rng, 0) < p
        \* p stays the numpy.float64 product unless max/min replaced it by the
        \* float 0.0 or 1.0; comparing a float with a numpy.float64 gives a
        \* numpy.bool_, comparing two floats gives a bool
        numpy_bool == 0 < p0 /\ p0 < 1000
        severity == rng_uniform(rng, 1, 3000, 15000)
        energy_delta == -rng_uniform(rng, 2, 2000, 6000)
        infection_delta == rng_uniform(rng, 3, 0, 3000)
    IN IF encounter
       THEN [state |-> [state EXCEPT
                          !.injury = Min(100000, Max(0, @ + severity)),
                          !.energy = Min(100000, Max(0, @ + energy_delta)),
                          !.infection = Min(100000, Max(0, @ + infection_delta))],
             rng |-> Advance(rng, 4),
             encounter |-> TRUE, numpy_bool |-> numpy_bool, injury_delta |-> severity,
             energy_delta |-> energy_delta, infection_delta |-> infection_delta]
       ELSE [state |-> state, rng |-> Advance(rng, 1),
             encounter |-> FALSE, numpy_bool |-> numpy_bool, injury_delta |-> 0,
             energy_delta |-> 0,
             infection_delta |-> 0]

HeatStress(state, air_temp, shelter_active, hazard_multiplier) ==
    LET heat_threshold == (38000 * 1000) \div Max(100, hazard_multiplier)
        extra_drain == MulM(MulM(air_temp - heat_threshold, 500), hazard_multiplier)
    IN IF air_temp > heat_threshold /\ ~shelter_active
       THEN [state |-> [state EXCEPT !.hydration = Max(0, @ - extra_drain)],
             events |-> <<Message("Heat stress: extra hydration drain {:.1f}",
                                  Round1(extra_drain))>>]
       ELSE [state |-> state, events |-> <<>>]

HypothermiaRisk(state, air_temp, shelter_active) ==
    IF air_temp < 0 /\ ~shelter_active /\ state.fatigue > 60000
    THEN [state |-> [state EXCEPT !.core_temp_c = @ - MulM(Abs(air_temp), 10)],
          events |-> <<Message("Hypothermia risk: core temp dropping extra {:.2f}",
                               Round2(MulM(Abs(air_temp), 10)))>>]
    ELSE [state |-> state, events |-> <<>>]

SwampDisease(state, terrain, humidity) ==
    IF terrain = "SWAMP" /\ humidity > 700
    THEN [state |-> [state EXCEPT !.infection = Min(100000, @ + MulM(20, humidity))],
          events |-> <<Message("Swamp exposure: infection +{:.2f}",
                               Round2(MulM(20, humidity)))>>]
    ELSE [state |-> state, events |-> <<>>]

\* returns the organism and the list of hazard events
check_environmental_hazards(state, air_temp, shelter_active, terrain, humidity, hazard_multiplier) ==
    LET s1 == HeatStress(state, air_temp, shelter_active, hazard_multiplier)
        s2 == HypothermiaRisk(s1.state, air_temp, shelter_active)
        s3 == SwampDisease(s2.state, terrain, humidity)
    IN [state |-> s3.state, events |-> s1.events \o s2.events \o s3.events]

(***************************************************************************)
(* sim.hunters                                                             *)
(***************************************************************************)
\* Optional[int] None
None == 0 - 1

Hunter(id, x, y, detection_radius, chase_speed, patrol_speed, patrol_direction) ==
    [id |-> id, x |-> x, y |-> y, detection_radius |-> detection_radius,
     chase_speed |-> chase_speed, patrol_speed |-> patrol_speed,
     is_chasing |-> FALSE, patrol_direction |-> patrol_direction,
     steps_since_direction_change |-> 0]

\* Hunter.distance_to(tx, ty) <= radius, on the squares (both sides are >= 0)
WithinEuclid(h, tx, ty, radius) ==
    (h.x - tx) * (h.x - tx) + (h.y - ty) * (h.y - ty) <= radius * radius

\* the Chebyshev distance in place of the Manhattan distance (a faulty metric)
chebyshev_distance_to(h, tx, ty) == Max(Abs(h.x - tx), Abs(h.y - ty))

manhattan_distance_to(h, tx, ty) == Abs(h.x - tx) + Abs(h.y - ty)

\* Hunter.to_dict (replay and rendering only)
Hunter_to_dict(h) ==
    [id |-> h.id, pos |-> [x |-> h.x, y |-> h.y],
     detection_radius |-> h.detection_radius, is_chasing |-> h.is_chasing]

PatrolDirs == << <<0, 1>>, <<0, -1>>, <<1, 0>>, <<-1, 0>> >>

\* _spawn_hunters: a rejected attempt takes two draws, an accepted one four;
\* at most 1000 attempts in all
RECURSIVE SpawnLoop(_, _, _, _, _, _, _, _)
SpawnLoop(hcfg, world, px, py, placed, attempts, hunters, rng) ==
    IF placed >= hcfg.count \/ attempts >= 1000
    THEN [hunters |-> hunters, rng |-> rng]
    ELSE LET x(j) == rng_integers(rng, 2 * j, 2, world.w - 2)
             y(j) == rng_integers(rng, 2 * j + 1, 2, world.h - 2)
             ok(j) == /\ Abs(x(j) - px) + Abs(y(j) - py) >= hcfg.spawn_margin
                      /\ terrain_at(world, x(j), y(j)) # "WATER"
             left == 999 - attempts
         IN IF \E j \in 0..left : ok(j)
            THEN Val([j \in {CHOOSE j \in 0..left : ok(j) /\ \A i \in 0..(j - 1) : ~ok(i)} |->
                     LET radius == rng_integers(rng, 2 * j + 2, hcfg.min_detection_radius,
                                                hcfg.max_detection_radius + 1)
                         direction == PatrolDirs[rng_integers(rng, 2 * j + 3, 0, 4) + 1]
                     IN SpawnLoop(hcfg, world, px, py, placed + 1, attempts + j + 1,
                                  Append(hunters, Hunter(placed, x(j), y(j), radius,
                                                         hcfg.chase_speed, hcfg.patrol_speed,
                                                         direction)),
                                  Advance(rng, 2 * j + 4))])
            ELSE [hunters |-> hunters, rng |-> Advance(rng, 2 * (left + 1))]

\* a constructor that spawns whatever config.hunters.enabled says (a faulty variant)
HunterManagerAlwaysSpawns(config, world, rng, px, py) ==
    SpawnLoop(config.hunters, world, px, py, 0, 0, <<>>, rng)

\* HunterManager.__init__: the hunter list and the advanced generator
HunterManager(config, world, rng, px, py) ==
    IF ~config.hunters.enabled
    THEN [hunters |-> <<>>, rng |-> rng]
    ELSE SpawnLoop(config.hunters, world, px, py, 0, 0, <<>>, rng)

Sign(d) == IF d = 0 THEN 0 ELSE IF d > 0 THEN 1 ELSE -1

\* a sub-step that does not look at the terrain (a faulty variant)
MoveTowardStepThroughWater(world, h, tx, ty) ==
    IF Abs(tx - h.x) >= Abs(ty - h.y)
    THEN [h EXCEPT !.x = @ + Sign(tx - h.x)]
    ELSE [h EXCEPT !.y = @ + Sign(ty - h.y)]

\* one sub-step of _move_toward
MoveTowardStep(world, h, tx, ty) ==
    LET dx == Sign(tx - h.x)
        dy == Sign(ty - h.y)
        prefer_x == Abs(tx - h.x) >= Abs(ty - h.y)
        nx == IF prefer_x THEN h.x + dx ELSE h.x
        ny == IF prefer_x THEN h.y ELSE h.y + dy
        alt_nx == IF prefer_x THEN h.x ELSE h.x + dx
        alt_ny == IF prefer_x THEN h.y + dy ELSE h.y
    IN IF ~in_bounds(world, nx, ny)
       THEN h
       ELSE IF terrain_at(world, nx, ny) # "WATER"
       THEN [h EXCEPT !.x = nx, !.y = ny]
       ELSE IF in_bounds(world, alt_nx, alt_ny) /\ terrain_at(world, alt_nx, alt_ny) # "WATER"
       THEN [h EXCEPT !.x = alt_nx, !.y = alt_ny]
       ELSE h

RECURSIVE _move_toward(_, _, _, _, _)
_move_toward(world, h, tx, ty, speed) ==
    IF speed <= 0
    THEN h
    ELSE _move_toward(world, MoveTowardStep(world, h, tx, ty), tx, ty, speed - 1)

\* a patrol that keeps its heading at an obstacle (a faulty variant)
PatrolDrawnNoBounce(world, h, u, k) ==
    LET steps == h.steps_since_direction_change + 1
        change == steps > 5 /\ u < 200
        direction == IF change THEN PatrolDirs[k + 1] ELSE h.patrol_direction
        h1 == [h EXCEPT !.steps_since_direction_change = IF change THEN 0 ELSE steps,
                        !.patrol_direction = direction]
        nx == h.x + direction[1]
        ny == h.y + direction[2]
    IN IF in_bounds(world, nx, ny) /\ terrain_at(world, nx, ny) # "WATER"
       THEN [h1 EXCEPT !.x = nx, !.y = ny]
       ELSE h1

\* a patrol whose bounce resets the tick count (a faulty variant)
PatrolDrawnBounceResets(world, h, u, k) ==
    LET steps == h.steps_since_direction_change + 1
        change == steps > 5 /\ u < 200
        direction == IF change THEN PatrolDirs[k + 1] ELSE h.patrol_direction
        h1 == [h EXCEPT !.steps_since_direction_change = IF change THEN 0 ELSE steps,
                        !.patrol_direction = direction]
        nx == h.x + direction[1]
        ny == h.y + direction[2]
    IN IF in_bounds(world, nx, ny) /\ terrain_at(world, nx, ny) # "WATER"
       THEN [h1 EXCEPT !.x = nx, !.y = ny]
       ELSE [h1 EXCEPT !.patrol_direction = <<-direction[1], -direction[2]>>,
                       !.steps_since_direction_change = 0]

\* the body of _patrol for the drawn values: u is what rng.random() returned
\* and k what rng.integers(0, 4) returned (both are read only when the tick
\* count is above 5, and k only when u < 0.2)
PatrolDrawn(world, h, u, k) ==
    LET steps == h.steps_since_direction_change + 1
        change == steps > 5 /\ u < 200
        direction == IF change THEN PatrolDirs[k + 1] ELSE h.patrol_direction
        h1 == [h EXCEPT !.steps_since_direction_change = IF change THEN 0 ELSE steps,
                        !.patrol_direction = direction]
        nx == h.x + direction[1]
        ny == h.y + direction[2]
    IN IF in_bounds(world, nx, ny) /\ terrain_at(world, nx, ny) # "WATER"
       THEN [h1 EXCEPT !.x = nx, !.y = ny]
       ELSE [h1 EXCEPT !.patrol_direction = <<-direction[1], -direction[2]>>]

\* _patrol: the hunter and the advanced generator
_patrol(world, h, rng) ==
    LET drawn == h.steps_since_direction_change + 1 > 5
        change == drawn /\ rng_random(rng, 0) < 200
    IN [h |-> PatrolDrawn(world, h, rng_random(rng, 0), rng_integers(rng, 1, 0, 4)),
        rng |-> IF change THEN Advance(rng, 2) ELSE IF drawn THEN Advance(rng, 1) ELSE rng]

\* a kill check that keeps the first adjacent hunter (a faulty variant)
KillCheckFirst(h, player_x, player_y, killer_id) ==
    IF manhattan_distance_to(h, player_x, player_y) <= 1 /\ killer_id = None
    THEN h.id
    ELSE killer_id

\* the kill check of one hunter: the killer so far is overwritten
KillCheck(h, player_x, player_y, killer_id) ==
    IF manhattan_distance_to(h, player_x, player_y) <= 1 THEN h.id ELSE killer_id

\* HunterManager.update: the loop over self.hunters from hunter number k on
RECURSIVE UpdateLoop(_, _, _, _, _, _, _)
UpdateLoop(world, hunters, k, player_x, player_y, rng, killer_id) ==
    IF k > Len(hunters)
    THEN [hunters |-> hunters, rng |-> rng, killer_id |-> killer_id]
    ELSE LET h == hunters[k]
             chase == WithinEuclid(h, player_x, player_y, h.detection_radius)
         IN Val([pat \in {_patrol(world, [h EXCEPT !.is_chasing = FALSE], rng)} |->
            Val([moved \in {IF chase
                            THEN _move_toward(world, [h EXCEPT !.is_chasing = TRUE],
                                              player_x, player_y, h.chase_speed)
                            ELSE pat.h} |->
                UpdateLoop(world, [hunters EXCEPT ![k] = moved], k + 1, player_x, player_y,
                           IF chase THEN rng ELSE pat.rng,
                           KillCheck(moved, player_x, player_y, killer_id))])])

\* an update whose hunters keep chasing once they have chased (a faulty variant)
update_sticky_chase(world, hunters, player_x, player_y, rng) ==
    Val([r \in {UpdateLoop(world, hunters, 1, player_x, player_y, rng, None)} |->
        [r EXCEPT !.hunters = [k \in DOMAIN @ |->
                                 [@[k] EXCEPT !.is_chasing = @ \/ hunters[k].is_chasing]]]])

update(world, hunters, player_x, player_y, rng) ==
    UpdateLoop(world, hunters, 1, player_x, player_y, rng, None)

\* the record get_visible_hunters builds for one hunter
VisibleRecordLeaky(h, dist) ==
    [id |-> h.id, pos |-> [x |-> h.x, y |-> h.y], distance |-> dist,
     is_chasing |-> h.is_chasing, detection_radius |-> h.detection_radius]

VisibleRecord(h, dist) ==
    [id |-> h.id, pos |-> [x |-> h.x, y |-> h.y], distance |-> dist,
     is_chasing |-> h.is_chasing]

RECURSIVE VisibleFrom(_, _, _, _, _)
VisibleFrom(hunters, k, player_x, player_y, visibility_radius) ==
    IF k > Len(hunters)
    THEN <<>>
    ELSE LET dist == manhattan_distance_to(hunters[k], player_x, player_y)
             rest == VisibleFrom(hunters, k + 1, player_x, player_y, visibility_radius)
         IN IF dist <= visibility_radius
            THEN <<VisibleRecord(hunters[k], dist)>> \o rest
            ELSE rest

get_visible_hunters(hunters, player_x, player_y, visibility_radius) ==
    VisibleFrom(hunters, 1, player_x, player_y, visibility_radius)

(***************************************************************************)
(* sim.trophy                                                              *)
(***************************************************************************)
\* math.sqrt of a non-negative integer, in milli (floor), by bisection
RECURSIVE SqrtBisect(_, _, _)
SqrtBisect(n, lo, hi) ==
    IF hi - lo <= 1
    THEN lo
    ELSE LET mid == (lo + hi) \div 2
         IN IF mid * mid <= n THEN SqrtBisect(n, mid, hi) ELSE SqrtBisect(n, lo, mid)

Sqrt(d2) == SqrtBisect(d2 * 1000000, 0, 46340)

\* placement that takes the first sampled cell unconditionally (a faulty variant)
_place_trophy_first_sample(tcfg, world, rng, px, py) ==
    [trophy_x |-> rng_integers(rng, 0, 3, world.w - 3),
     trophy_y |-> rng_integers(rng, 1, 3, world.h - 3),
     fallback |-> FALSE,
     rng |-> Advance(rng, 2)]

\* _place_trophy: up to 2000 attempts of two draws each, then the fallback.
\* fallback records which of the two paths set the position.
_place_trophy(tcfg, world, rng, px, py) ==
    LET x(k) == rng_integers(rng, 2 * k, 3, world.w - 3)
        y(k) == rng_integers(rng, 2 * k + 1, 3, world.h - 3)
        ok(k) == /\ Abs(x(k) - px) + Abs(y(k) - py) >= tcfg.min_distance_from_spawn
                 /\ terrain_at(world, x(k), y(k)) # "WATER"
    IN IF \E k \in 0..1999 : ok(k)
       THEN Val([k \in {CHOOSE k \in 0..1999 : ok(k) /\ \A j \in 0..(k - 1) : ~ok(j)} |->
                [trophy_x |-> x(k), trophy_y |-> y(k), fallback |-> FALSE,
                 rng |-> Advance(rng, 2 * (k + 1))]])
       ELSE [trophy_x |-> Max(3, Min(world.w - 4, world.w - px - 1)),
             trophy_y |-> Max(3, Min(world.h - 4, world.h - py - 1)),
             fallback |-> TRUE,
             rng |-> Advance(rng, 4000)]

\* TrophyManager.__init__: the manager and the advanced generator
TrophyManager(config, world, rng, px, py) ==
    IF ~config.trophy.enabled
    THEN [tm |-> [found |-> FALSE, trophy_x |-> -1, trophy_y |-> -1,
                  _prev_distance |-> 9999000, fallback |-> FALSE],
          rng |-> rng]
    ELSE Val([p \in {_place_trophy(config.trophy, world, rng, px, py)} |->
             [tm |-> [found |-> FALSE, trophy_x |-> p.trophy_x, trophy_y |-> p.trophy_y,
                      _prev_distance |-> 9999000, fallback |-> p.fallback],
              rng |-> p.rng]])

\* check_found without the already-found guard (a faulty variant)
check_found_retrigger(tm, tcfg, player_x, player_y) ==
    IF ~tcfg.enabled
    THEN [tm |-> tm, found |-> FALSE]
    ELSE IF Abs(player_x - tm.trophy_x) <= 1 /\ Abs(player_y - tm.trophy_y) <= 1
    THEN [tm |-> [tm EXCEPT !.found = TRUE], found |-> TRUE]
    ELSE [tm |-> tm, found |-> FALSE]

\* check_found: the manager after the call and the returned bool
check_found(tm, tcfg, player_x, player_y) ==
    IF ~tcfg.enabled \/ tm.found
    THEN [tm |-> tm, found |-> FALSE]
    ELSE IF Abs(player_x - tm.trophy_x) <= 1 /\ Abs(player_y - tm.trophy_y) <= 1
    THEN [tm |-> [tm EXCEPT !.found = TRUE], found |-> TRUE]
    ELSE [tm |-> tm, found |-> FALSE]

\* the empty dict
EmptyDict == [k \in {} |-> 0]

\* get_hint with the directional hint on every tick (a faulty variant)
get_hint_every_tick(tm, tcfg, player_x, player_y, step) ==
    IF ~tcfg.enabled
    THEN [hint |-> EmptyDict, tm |-> tm]
    ELSE [hint |-> [trophy_distance_approx |-> "far",
                    trophy_direction |-> IF Abs(tm.trophy_x - player_x) > Abs(tm.trophy_y - player_y)
                                         THEN (IF tm.trophy_x - player_x > 0 THEN "E" ELSE "W")
                                         ELSE (IF tm.trophy_y - player_y > 0 THEN "S" ELSE "N")],
          tm |-> tm]

\* get_hint: the hint dict and the manager after the call (_prev_distance is updated)
get_hint(tm, tcfg, player_x, player_y, step) ==
    IF ~tcfg.enabled
    THEN [hint |-> EmptyDict, tm |-> tm]
    ELSE LET dx == tm.trophy_x - player_x
             dy == tm.trophy_y - player_y
         IN Val([dist \in {Sqrt(dx * dx + dy * dy)} |->
         LET approx == IF dist < 5000 THEN "very_close"
                       ELSE IF dist < 15000 THEN "close"
                       ELSE IF dist < 30000 THEN "moderate"
                       ELSE "far"
             temperature == IF dist < tm._prev_distance - 500 THEN "warmer"
                            ELSE IF dist > tm._prev_distance + 500 THEN "colder"
                            ELSE "same"
             direction == IF Abs(dx) > Abs(dy)
                          THEN (IF dx > 0 THEN "E" ELSE "W")
                          ELSE (IF dy > 0 THEN "S" ELSE "N")
         IN [hint |-> [trophy_distance_approx |-> approx]
                      @@ (IF tcfg.warm_cold_enabled
                          THEN [trophy_temperature |-> temperature] ELSE EmptyDict)
                      @@ (IF step % tcfg.hint_interval = 0
                          THEN [trophy_direction |-> direction] ELSE EmptyDict),
             tm |-> [tm EXCEPT !._prev_distance = dist]]])

(***************************************************************************)
(* sim.observation                                                         *)
(***************************************************************************)
_direction_name(dx, dy) ==
    IF Abs(dx) >= Abs(dy)
    THEN (IF dx > 0 THEN "E" ELSE "W")
    ELSE (IF dy > 0 THEN "S" ELSE "N")

\* sum of f over lo..hi
RECURSIVE SumOver(_, _, _)
SumOver(f, lo, hi) == IF lo > hi THEN 0 ELSE f[lo] + SumOver(f, lo + 1, hi)

\* the cell among S that the scan (dy outermost, dx innermost) meets first
FirstScanned(S, radius) ==
    CHOOSE c \in S : \A d \in S :
        (c[2] + radius) * (2 * radius + 1) + c[1] <= (d[2] + radius) * (2 * radius + 1) + d[1]

\* the "no water in radius" branch: the neighbour N, S, E, W (in that order)
\* with the strictly smallest dist_to_water below 9999
GradientDirection(world, cx, cy) ==
    LET cand == << <<0, -1, "N">>, <<0, 1, "S">>, <<1, 0, "E">>, <<-1, 0, "W">> >>
        dd(k) == IF in_bounds(world, cx + cand[k][1], cy + cand[k][2])
                 THEN world.dist_to_water[Idx(cx + cand[k][1], cy + cand[k][2], world.w)]
                 ELSE 9999
        best == {k \in 1..4 : dd(k) < 9999 /\ \A j \in 1..4 : dd(k) <= dd(j)}
    IN IF best = {} THEN "" ELSE cand[SetMin(best)][3]

_analyze_neighborhood(world, cx, cy, radius) ==
    LET at(c) == Idx(cx + c[1], cy + c[2], world.w)
        dist(c) == Abs(c[1]) + Abs(c[2])
    IN
    Val([offs \in {{c \in (-radius..radius) \X (-radius..radius) :
                      in_bounds(world, cx + c[1], cy + c[2]) /\ c # <<0, 0>>}} |->
    Val([water \in {{c \in offs : world.water_mask[at(c)]}} |->
    Val([water_d \in {SetMin({9999} \cup {dist(c) : c \in water})} |->
    Val([best_q \in {SetMax({0} \cup {world.shelter_quality[at(c)] : c \in offs})} |->
    Val([shelter \in {{c \in offs : world.shelter_quality[at(c)] = best_q}} |->
    Val([shelter_d \in {SetMin({9999} \cup {dist(c) : c \in shelter})} |->
        LET \* per-row sums over the cells of the neighbourhood
            rowsum(grid, dy) ==
                SumOver([dx \in -radius..radius |->
                            IF <<dx, dy>> \in offs THEN grid[at(<<dx, dy>>)] ELSE 0],
                        -radius, radius)
            total(grid) ==
                SumOver([dy \in -radius..radius |-> rowsum(grid, dy)], -radius, radius)
            n == Cardinality(offs)
            shelter_c == FirstScanned({c \in shelter : dist(c) = shelter_d}, radius)
            water_c == FirstScanned({c \in water : dist(c) = water_d}, radius)
        IN [nearest_water |->
                IF water # {}
                THEN [distance |-> water_d,
                      direction |-> _direction_name(water_c[1], water_c[2])]
                ELSE [distance |-> world.dist_to_water[Idx(cx, cy, world.w)],
                      direction |-> GradientDirection(world, cx, cy)],
            best_shelter |->
                IF shelter # {}
                THEN [distance |-> shelter_d,
                      direction |-> _direction_name(shelter_c[1], shelter_c[2]),
                      shelter_quality |-> Round2(best_q)]
                ELSE [distance |-> -1, direction |-> "", shelter_quality |-> Round2(best_q)],
            avg_temp_c |-> IF n > 0 THEN Round1(total(world.air_temperature_c) \div n) ELSE 0,
            avg_vegetation |->
                IF n > 0 THEN Round2(total(world.vegetation_biomass) \div n) ELSE 0,
            max_wildlife_risk |->
                Round2(SetMax({0} \cup {world.wildlife_risk[at(c)] : c \in offs}))]
    ])])])])])])

\* an action mask that offers the four moves without the bounds test (a faulty variant)
_get_action_mask_unbounded_moves(world, x, y) ==
    <<"REST", "HIDE", "SIGNAL", "MOVE_N", "MOVE_S", "MOVE_E", "MOVE_W">>
    \o (IF world.water_availability[Idx(x, y, world.w)] > 100 THEN <<"DRINK">> ELSE <<>>)
    \o (IF world.vegetation_biomass[Idx(x, y, world.w)] > 100 THEN <<"FORAGE">> ELSE <<>>)
    \o (IF terrain_at(world, x, y) # "WATER" THEN <<"BUILD_SHELTER">> ELSE <<>>)

\* the list of valid action names, in the order the code appends them
_get_action_mask(world, x, y) ==
    <<"REST", "HIDE", "SIGNAL">>
    \o SelectSeq(<<"MOVE_N", "MOVE_S", "MOVE_E", "MOVE_W">>,
                 LAMBDA a : in_bounds(world, x + ACTION_DIRECTION(a)[1],
                                      y + ACTION_DIRECTION(a)[2]))
    \o (IF world.water_availability[Idx(x, y, world.w)] > 100 THEN <<"DRINK">> ELSE <<>>)
    \o (IF world.vegetation_biomass[Idx(x, y, world.w)] > 100 THEN <<"FORAGE">> ELSE <<>>)
    \o (IF terrain_at(world, x, y) # "WATER" THEN <<"BUILD_SHELTER">> ELSE <<>>)

\* the sightings of history entry number k (1-based), tagged with their step offset
SightingsAt(history, k) ==
    [j \in 1..Len(history[k]) |->
        [id |-> history[k][j].id,
         entry |-> [step_offset |-> (k - 1) - Len(history),
                    pos |-> history[k][j].pos,
                    distance |-> history[k][j].distance,
                    is_chasing |-> history[k][j].is_chasing]]]

RECURSIVE FlatSightings(_, _)
FlatSightings(history, k) ==
    IF k > Len(history) THEN <<>>
    ELSE SightingsAt(history, k) \o FlatSightings(history, k + 1)

\* hunter ids in the order in which they first occur
RECURSIVE FirstSeen(_, _, _)
FirstSeen(flat, k, seen) ==
    IF k > Len(flat) THEN <<>>
    ELSE IF flat[k].id \in seen THEN FirstSeen(flat, k + 1, seen)
    ELSE <<flat[k].id>> \o FirstSeen(flat, k + 1, seen \cup {flat[k].id})

RECURSIVE EntriesOf(_, _, _)
EntriesOf(flat, k, hid) ==
    IF k > Len(flat) THEN <<>>
    ELSE IF flat[k].id = hid THEN <<flat[k].entry>> \o EntriesOf(flat, k + 1, hid)
    ELSE EntriesOf(flat, k + 1, hid)

_compile_sighting_summary(history) ==
    Val([flat \in {FlatSightings(history, 1)} |->
    Val([ids \in {FirstSeen(flat, 1, {})} |->
        [n \in 1..Len(ids) |->
            [hunter_id |-> ids[n], sightings |-> EntriesOf(flat, 1, ids[n])]]])])

LastN(seq, n) == IF Len(seq) <= n THEN seq ELSE SubSeq(seq, Len(seq) - n + 1, Len(seq))

\* the fog-of-war radius if fog is enabled, else the observation radius
VisRadius(config) ==
    IF config.fog_of_war.enabled
    THEN config.fog_of_war.visibility_radius
    ELSE config.sim.observation_radius

build_observation(world, organism, step, config, recent_events, visible_hunters, hunter_sighting_history, trophy_hint) ==
    LET time_info == get_time_info(step, config)
        x == organism.x
        y == organism.y
        i == Idx(x, y, world.w)
    IN [timestep |-> step,
        time |-> [day_of_year |-> time_info.day_of_year, hour |-> time_info.hour],
        agent |-> [pos |-> [x |-> x, y |-> y],
                   hydration |-> Round1(organism.hydration),
                   energy |-> Round1(organism.energy),
                   core_temp_c |-> Round1(organism.core_temp_c),
                   fatigue |-> Round1(organism.fatigue),
                   injury |-> Round1(organism.injury),
                   infection |-> Round1(organism.infection),
                   has_shelter |-> organism.has_shelter],
        local |-> [terrain |-> terrain_at(world, x, y),
                   air_temp_c |-> Round1(world.air_temperature_c[i]),
                   humidity |-> Round2(world.humidity[i]),
                   water_availability |-> Round2(world.water_availability[i]),
                   vegetation_biomass |-> Round2(world.vegetation_biomass[i]),
                   wildlife_risk |-> Round2(world.wildlife_risk[i]),
                   shelter_quality |-> Round2(world.shelter_quality[i]),
                   movement_cost |-> Round1(world.movement_cost[i]),
                   elevation_m |-> world.elevation[i]],
        nearby |-> _analyze_neighborhood(world, x, y, VisRadius(config)),
        recent_memory |-> LastN(recent_events, 5),
        action_mask |-> _get_action_mask(world, x, y),
        visible_hunters |-> visible_hunters]
       @@ (IF hunter_sighting_history # <<>>
           THEN [hunter_sighting_history |-> _compile_sighting_summary(hunter_sighting_history)]
           ELSE EmptyDict)
       @@ (IF DOMAIN trophy_hint # {} THEN [trophy |-> trophy_hint] ELSE EmptyDict)

(***************************************************************************)
(* sim.replay.ReplayLogger                                                 *)
(***************************************************************************)
ReplayLogger(seed, config_dict) ==
    [meta |-> [version |-> "0.1", seed |-> seed],
     config |-> config_dict,
     steps |-> <<>>,
     summary |-> EmptyDict]

log_step(replay, step, time_info, agent_state, local_state, action, events) ==
    [replay EXCEPT !.steps = Append(@, [t |-> step, time |-> time_info,
                                        agent |-> agent_state, local |-> local_state,
                                        action |-> action, events |-> events])]

\* ReplayLogger.set_summary
set_summary(replay, summary) == [replay EXCEPT !.summary = summary]

(***************************************************************************)
(* config_io.utils.save_json / load_json and json.dumps on a replay record. *)
(* A JSON document is the record of its members (member order plays no     *)
(* part, so every document is in sorted-keys form).  bool, int, float, str,  *)
(* dict and list leaves are JSON values and are written as themselves; the *)
(* one leaf the engine can log as another object is events.encounter.      *)
(***************************************************************************)
\* save_json: json.dump(data, f, indent=2, default=str); the document written.
\* A bool is written as the literal true / false; a numpy.bool_ is not
\* serializable, so default=str turns it into the string "True" / "False".
save_json(data) ==
    LET json_default_str(o) == IF o.numpy_bool THEN "True" ELSE "False"
        Encode(o) == IF DOMAIN o = {"bool"} THEN [literal |-> o.bool]
                     ELSE IF DOMAIN o = {"str"} THEN [string |-> o.str]
                     ELSE [string |-> json_default_str(o)]
    IN [data EXCEPT !.steps = [k \in DOMAIN @ |->
                                 [@[k] EXCEPT !.events.encounter = Encode(@)]]]

\* load_json: json.load(f); a literal becomes a bool and a string a str
load_json(doc) ==
    LET Decode(j) == IF DOMAIN j = {"literal"} THEN [bool |-> j.literal]
                     ELSE [str |-> j.string]
    IN [doc EXCEPT !.steps = [k \in DOMAIN @ |->
                                [@[k] EXCEPT !.events.encounter = Decode(@)]]]

\* json.dumps(data, sort_keys=True): there is no default, so an object that is
\* not serializable raises TypeError
json_dumps_sort_keys(data) ==
    IF \A k \in DOMAIN data.steps :
          DOMAIN data.steps[k].events.encounter \in {{"bool"}, {"str"}}
    THEN [text |-> save_json(data)]
    ELSE [raised |-> "TypeError"]

\* ReplayLogger.save and ReplayLogger.load
save(replay) == save_json(replay)

load(file) == load_json(file)

(***************************************************************************)
(* sim.env.Environment                                                     *)
(***************************************************************************)
\* Environment.__init__; world.rng is the one generator shared by the world,
\* the hunter manager, the trophy manager and the hazards
Environment(config, seed, entropy) ==
    Val([world0 \in {WorldState(config, seed, entropy)} |->
    Val([sp \in {find_spawn_point(world0)} |->
    Val([hm \in {HunterManager(config, world0, sp.rng, sp.x, sp.y)} |->
    Val([tr \in {TrophyManager(config, world0, hm.rng, sp.x, sp.y)} |->
        [config |-> config,
         seed |-> seed,
         world |-> update_environment([world0 EXCEPT !.rng = tr.rng], 0, config),
         step_count |-> 0,
         recent_events |-> <<>>,
         organism |-> OrganismState(config.physiology, sp.x, sp.y),
         hunter_manager |-> [hunters |-> hm.hunters],
         hunter_sighting_history |-> <<>>,
         trophy_manager |-> tr.tm,
         _trophy_won |-> FALSE,
         replay |-> ReplayLogger(seed, config)]])])])])

done(e) == ~e.organism.alive \/ e._trophy_won

\* get_observation: the observation and the environment after the call
get_observation(e) ==
    Val([visible_hunters \in {get_visible_hunters(e.hunter_manager.hunters, e.organism.x,
                                                 e.organism.y, VisRadius(e.config))} |->
    Val([h \in {get_hint(e.trophy_manager, e.config.trophy, e.organism.x, e.organism.y,
                         e.step_count)} |->
        [obs |-> build_observation(e.world, e.organism, e.step_count, e.config,
                                   e.recent_events, visible_hunters,
                                   e.hunter_sighting_history, h.hint),
         env |-> [e EXCEPT !.trophy_manager = h.tm]]])])

\* the "Apply action" block of step: organism, world, event messages and the
\* gains entered into events["delta"]
ApplyAction(org, world, action, dt) ==
    LET i == Idx(org.x, org.y, world.w)
        nx == org.x + ACTION_DIRECTION(action)[1]
        ny == org.y + ACTION_DIRECTION(action)[2]
        wa == world.water_availability[i]
        bm == world.vegetation_biomass[i]
        hydration_gain == MulM(Min(20000, wa * 25), dt)
        energy_gain == MulM(Min(15000, bm * 20), dt)
        same(messages) == [org |-> org, world |-> world, events |-> messages,
                           delta |-> EmptyDict]
    IN CASE action \in MoveActions ->
              IF in_bounds(world, nx, ny)
              THEN [org |-> [org EXCEPT !.x = nx, !.y = ny], world |-> world,
                    events |-> <<Text("Moved " \o SubSeq(action, Len(action), Len(action)))>>,
                    delta |-> EmptyDict]
              ELSE same(<<Text("Move blocked: out of bounds")>>)
         [] action = "DRINK" ->
              IF wa > 100
              THEN [org |-> [org EXCEPT !.hydration = clamp(@ + hydration_gain, 0, 100000)],
                    world |-> world,
                    events |-> <<Message("Drank water: +{:.1f} hydration",
                                         Round1(hydration_gain))>>,
                    delta |-> [hydration_gain |-> hydration_gain]]
              ELSE same(<<Text("Tried to drink but no water available")>>)
         [] action = "FORAGE" ->
              IF bm > 100
              THEN [org |-> [org EXCEPT !.energy = clamp(@ + energy_gain, 0, 100000)],
                    world |-> [world EXCEPT !.vegetation_biomass[i] = Max(0, @ - 100)],
                    events |-> <<Message("Foraged: +{:.1f} energy", Round1(energy_gain))>>,
                    delta |-> [energy_gain |-> energy_gain]]
              ELSE same(<<Text("Foraged but insufficient vegetation")>>)
         [] action = "BUILD_SHELTER" ->
              [org |-> [org EXCEPT !.has_shelter = TRUE, !.shelter_durability = 12],
               world |-> world, events |-> <<Text("Built shelter")>>, delta |-> EmptyDict]
         [] action = "REST" -> same(<<Text("Resting")>>)
         [] action = "HIDE" -> same(<<Text("Hiding")>>)
         [] action = "SIGNAL" -> same(<<Text("Signaled (no effect)")>>)

\* the "Shelter durability" block of step
ShelterDurability(org) ==
    IF org.has_shelter
    THEN [org EXCEPT !.shelter_durability = @ - 1,
                     !.has_shelter = (org.shelter_durability - 1 > 0)]
    ELSE org

\* the hunter-kill block of step
HunterKill(org, killer_id) ==
    IF killer_id # None
    THEN [org EXCEPT !.alive = FALSE, !.cause_of_death = "HUNTED"]
    ELSE org

\* Environment.step: the environment after the call and the returned dict.
\* mutations lists the organism after the action, after apply_physiology, after
\* check_wildlife_encounter and after check_environmental_hazards; killer_id
\* and found are the values update and check_found returned, before is the
\* organism the call started from and before_death the organism handed to
\* check_death.  events.encounter is logged as the object the hazard check
\* returned: [bool |-> b] for a bool, [numpy_bool |-> b] for a numpy.bool_.
step(e, action) ==
    LET cfg == e.config
        dt == cfg.sim.dt_hours
        diff == cfg.difficulty
        time_info == get_time_info(e.step_count, cfg)
        movement_cost == e.world.movement_cost[Idx(e.organism.x, e.organism.y, e.world.w)]
    IN
    Val([act \in {ApplyAction(e.organism, e.world, action, dt)} |->
    Val([org1 \in {ShelterDurability(act.org)} |->
    Val([i \in {Idx(org1.x, org1.y, e.world.w)} |->
    Val([shelter_active \in {org1.has_shelter \/ act.world.shelter_quality[i] > 300} |->
    Val([air_temp \in {act.world.air_temperature_c[i]} |->
    Val([phys \in {apply_physiology(org1, action, air_temp, shelter_active, movement_cost,
                                    dt, cfg.physiology, diff.drain_multiplier)} |->
    Val([org2 \in {phys.state} |->
    Val([terrain \in {terrain_at(act.world, org1.x, org1.y)} |->
    Val([enc \in {check_wildlife_encounter(org2, act.world.wildlife_risk[i], terrain,
                                           time_info.hour, action, act.world.rng,
                                           diff.wildlife_multiplier)} |->
    Val([haz \in {check_environmental_hazards(enc.state, air_temp, shelter_active, terrain,
                                              act.world.humidity[i],
                                              diff.hazard_multiplier)} |->
    Val([hu \in {update(act.world, e.hunter_manager.hunters, org1.x, org1.y, enc.rng)} |->
    Val([org3 \in {HunterKill(haz.state, hu.killer_id)} |->
    Val([visible_hunters \in {get_visible_hunters(hu.hunters, org1.x, org1.y,
                                                  VisRadius(cfg))} |->
    Val([history \in {LastN(Append(e.hunter_sighting_history, visible_hunters), 20)} |->
    Val([tf \in {check_found(e.trophy_manager, cfg.trophy, org1.x, org1.y)} |->
    Val([trophy_won \in {e._trophy_won \/ tf.found} |->
    Val([rain \in {rng_random(hu.rng, 0) < act.world.precip_prob[i]} |->
    Val([cd \in {check_death(org3, cfg.physiology)} |->
    Val([org4 \in {[cd.state EXCEPT !.age_steps = e.step_count + 1]} |->
    Val([event_messages \in {
            act.events
            \o (IF act.org.has_shelter /\ ~org1.has_shelter
                THEN <<Text("Shelter collapsed")>> ELSE <<>>)
            \o (IF enc.encounter
                THEN <<Message("Wildlife encounter! Injury +{:.1f}", Round1(enc.injury_delta))>>
                ELSE <<>>)
            \o haz.events
            \o (IF hu.killer_id # None
                THEN <<Message("Killed by hunter #{}!", hu.killer_id)>> ELSE <<>>)
            \o (IF tf.found THEN <<Text("TROPHY FOUND! You win!")>> ELSE <<>>)
            \o (IF rain THEN <<Text("Rain")>> ELSE <<>>)} |->
    Val([events \in {
            [encounter |-> IF enc.numpy_bool THEN [numpy_bool |-> enc.encounter]
                           ELSE [bool |-> enc.encounter],
             rain |-> rain, hazard_events |-> haz.events,
             delta |-> phys.deltas @@ act.delta, trophy_found |-> trophy_won]
            @@ (IF cfg.hunters.enabled
                THEN [hunters |-> [k \in 1..Len(hu.hunters) |-> Hunter_to_dict(hu.hunters[k])]]
                ELSE EmptyDict)} |->
    Val([local_state \in {
            [terrain |-> terrain,
             air_temp_c |-> Round1(air_temp),
             water_availability |-> Round2(act.world.water_availability[i]),
             vegetation_biomass |-> Round2(act.world.vegetation_biomass[i])]} |->
    Val([world1 \in {[act.world EXCEPT !.rng = Advance(hu.rng, 1)]} |->
        [env |-> [e EXCEPT
                    !.world = update_environment(world1, e.step_count + 1, cfg),
                    !.step_count = @ + 1,
                    !.recent_events = event_messages,
                    !.organism = org4,
                    !.hunter_manager = [hunters |-> hu.hunters],
                    !.hunter_sighting_history = history,
                    !.trophy_manager = tf.tm,
                    !._trophy_won = trophy_won,
                    !.replay = log_step(@, e.step_count,
                                        [day |-> time_info.day_of_year,
                                         hour |-> time_info.hour],
                                        OrganismState_to_dict(org4), local_state,
                                        [action |-> action], events)],
         result |-> [step |-> e.step_count + 1,
                     alive |-> org4.alive,
                     events |-> event_messages,
                     dead |-> cd.dead,
                     trophy_won |-> trophy_won,
                     action |-> action,
                     mutations |-> <<act.org, org2, enc.state, haz.state>>,
                     killer_id |-> hu.killer_id,
                     found |-> tf.found,
                     before |-> e.organism,
                     before_death |-> org3]]
    ])])])])])])])])])])])])])])])])])])])])])])])

(***************************************************************************)
(* Episodes: an Environment is constructed and then driven through its     *)
(* public methods step and get_observation                                 *)
(***************************************************************************)
NoEnv == EmptyDict

NoResult == EmptyDict

\* Configurations the episodes are run with: the defaults of config_io.config on
\* the small map, with hunters and trophy switched on and the margins, the
\* initial vitals and the fog varied
CfgDefaults ==
    [DefaultConfig EXCEPT !.hunters.enabled = TRUE, !.trophy.enabled = TRUE]

CfgHunt ==
    [DefaultConfig EXCEPT !.map.num_lakes = 0,
                          !.hunters.enabled = TRUE, !.hunters.count = 3,
                          !.hunters.spawn_margin = 2,
                          !.trophy.enabled = TRUE, !.trophy.min_distance_from_spawn = 2]

CfgHuntFrail ==
    [CfgHunt EXCEPT !.physiology.initial_hydration = 500,
                    !.physiology.initial_energy = 500,
                    !.fog_of_war.enabled = TRUE, !.fog_of_war.visibility_radius = 1]

CfgStalk ==
    [DefaultConfig EXCEPT !.map.num_lakes = 0,
                          !.hunters.enabled = TRUE, !.hunters.count = 2,
                          !.hunters.spawn_margin = 4,
                          !.trophy.enabled = TRUE, !.trophy.min_distance_from_spawn = 3]

CfgTrophy ==
    [DefaultConfig EXCEPT !.map.num_lakes = 0,
                          !.trophy.enabled = TRUE, !.trophy.min_distance_from_spawn = 2,
                          !.trophy.hint_interval = 2]

CfgFull ==
    [DefaultConfig EXCEPT !.physiology.initial_hydration = 100000,
                          !.physiology.initial_energy = 100000,
                          !.physiology.initial_fatigue = 0]

CfgFrail ==
    [DefaultConfig EXCEPT !.physiology.initial_hydration = 500,
                          !.physiology.initial_energy = 1000,
                          !.physiology.initial_injury = 99000]

Scenarios ==
    {[config |-> CfgDefaults, seed |-> 1],
     [config |-> CfgHunt, seed |-> 1],
     [config |-> CfgHuntFrail, seed |-> 7],
     [config |-> CfgStalk, seed |-> 5],
     [config |-> CfgTrophy, seed |-> 5],
     [config |-> CfgFull, seed |-> 2],
     [config |-> CfgFrail, seed |-> 3]}

Init ==
    /\ \E sc \in Scenarios : env = Environment(sc.config, sc.seed, 0)
    /\ env2 = NoEnv
    /\ obs = EmptyDict
    /\ result = NoResult
    /\ ret = EmptyDict

Step(a) ==
    /\ env.step_count < MaxSteps
    /\ \E r \in {step(env, a)} : env' = r.env /\ result' = r.result
    /\ UNCHANGED <<env2, obs, ret>>

GetObservation ==
    /\ \E o \in {get_observation(env)} : env' = o.env /\ obs' = o.obs
    /\ UNCHANGED <<env2, result, ret>>

Next ==
    \/ \E a \in ActionType : Step(a)
    \/ GetObservation

Spec == Init /\ [][Next]_vars

(***************************************************************************)
(* Two environments built from the same config and seed in processes that  *)
(* differ in everything else (entropy), driven by the same actions         *)
(***************************************************************************)
InitDet ==
    /\ \E sc \in Scenarios :
          /\ env = Environment(sc.config, sc.seed, 0)
          /\ env2 = Environment(sc.config, sc.seed, 1)
    /\ obs = EmptyDict
    /\ result = NoResult
    /\ ret = NoResult

StepBoth(a) ==
    /\ env.step_count < MaxSteps
    /\ \E r1 \in {step(env, a)}, r2 \in {step(env2, a)} :
          /\ env' = r1.env
          /\ env2' = r2.env
          /\ result' = r1.result
          /\ ret' = r2.result
    /\ UNCHANGED obs

NextDet == \E a \in ActionType : StepBoth(a)

SpecDet == InitDet /\ [][NextDet]_vars

(***************************************************************************)
(* check_death called on organisms in every combination of crossed         *)
(* thresholds, living or already dead                                      *)
(***************************************************************************)
MaxCalls == 2

DeathCauses == {"DEHYDRATION", "STARVATION", "HYPOTHERMIA", "HYPERTHERMIA",
                "TRAUMA", "INFECTION", "HUNTED"}

DeathInputs ==
    {[OrganismState(DefaultConfig.physiology, 5, 5) EXCEPT
         !.hydration = hy, !.energy = en, !.core_temp_c = ct,
         !.injury = inj, !.infection = inf,
         !.alive = (c = "ALIVE"), !.cause_of_death = c] :
       hy \in {0, 50000}, en \in {0, 50000}, ct \in {29000, 37000, 43000},
       inj \in {10000, 100000}, inf \in {5000, 100000},
       c \in DeathCauses \cup {"ALIVE"}}

InitDeath ==
    /\ \E o \in DeathInputs : env = [config |-> DefaultConfig, organism |-> o]
    /\ env2 = NoEnv
    /\ obs = EmptyDict
    /\ result = NoResult
    /\ ret = [calls |-> 0]

CheckDeathCall ==
    /\ ret.calls < MaxCalls
    /\ \E r \in {check_death(env.organism, env.config.physiology)} :
          /\ env' = [env EXCEPT !.organism = r.state]
          /\ ret' = [calls |-> ret.calls + 1, dead |-> r.dead, before |-> env.organism]
    /\ UNCHANGED <<env2, obs, result>>

NextDeath == CheckDeathCall

SpecDeath == InitDeath /\ [][NextDeath]_vars

(***************************************************************************)
(* TrophyManager constructed on generated worlds for a range of spawn      *)
(* points and minimum distances                                            *)
(***************************************************************************)
TrophyWorlds ==
    {[config |-> [DefaultConfig EXCEPT !.trophy.enabled = TRUE], seed |-> 1],
     [config |-> [DefaultConfig EXCEPT !.trophy.enabled = TRUE, !.map.num_lakes = 0],
      seed |-> 2]}

SpawnCoords == {0, 3, 5, 7, MapW - 1}

MinDistances == {1, 4, 8, 25}

InitTrophy ==
    /\ \E sc \in TrophyWorlds :
          env = [config |-> sc.config, world |-> WorldState(sc.config, sc.seed, 0)]
    /\ env2 = NoEnv
    /\ obs = EmptyDict
    /\ result = NoResult
    /\ ret = EmptyDict

ConstructTrophy(px, py, d) ==
    /\ ret = EmptyDict
    /\ \E config \in {[env.config EXCEPT !.trophy.min_distance_from_spawn = d]} :
       \E t \in {TrophyManager(config, env.world, env.world.rng, px, py)} :
          /\ ret' = [trophy_manager |-> t.tm, player_spawn |-> <<px, py>>,
                     min_distance_from_spawn |-> d]
          /\ env' = [env EXCEPT !.config = config, !.world.rng = t.rng]
    /\ UNCHANGED <<env2, obs, result>>

NextTrophy ==
    \E px \in SpawnCoords, py \in SpawnCoords, d \in MinDistances : ConstructTrophy(px, py, d)

SpecTrophy == InitTrophy /\ [][NextTrophy]_vars

(***************************************************************************)
(* HunterManager constructed on generated worlds for a range of player     *)
(* spawn points, margins, counts and detection radii                       *)
(***************************************************************************)
SpawnMargins == {0, 4, 15, 16, 25}

SpawnCounts == {0, 2, 30}

DetectionRadii == {<<3, 8>>, <<2, 2>>}

ConstructHunters(px, py, enabled, margin, count, radii) ==
    /\ ret = EmptyDict
    /\ \E config \in {[env.config EXCEPT !.hunters.enabled = enabled,
                                          !.hunters.spawn_margin = margin,
                                          !.hunters.count = count,
                                          !.hunters.min_detection_radius = radii[1],
                                          !.hunters.max_detection_radius = radii[2]]} :
       \E hm \in {HunterManager(config, env.world, env.world.rng, px, py)} :
          /\ ret' = [hunter_manager |-> [hunters |-> hm.hunters],
                     player_spawn |-> <<px, py>>,
                     rng_before |-> env.world.rng]
          /\ env' = [env EXCEPT !.config = config, !.world.rng = hm.rng]
    /\ UNCHANGED <<env2, obs, result>>

NextSpawn ==
    \E px \in SpawnCoords, py \in SpawnCoords, enabled \in BOOLEAN, margin \in SpawnMargins,
       count \in SpawnCounts, radii \in DetectionRadii :
          ConstructHunters(px, py, enabled, margin, count, radii)

SpecSpawn == InitTrophy /\ [][NextSpawn]_vars

(***************************************************************************)
(* _get_action_mask applied at every cell of the world of a freshly built  *)
(* environment (the function reads only the world and the position)        *)
(***************************************************************************)
MaskAt(x, y) ==
    /\ ret' = [action_mask |-> _get_action_mask(env.world, x, y), x |-> x, y |-> y]
    /\ UNCHANGED <<env, env2, obs, result>>

NextMask == \E x \in 0..(MapW - 1), y \in 0..(MapH - 1) : MaskAt(x, y)

SpecMask == Init /\ [][NextMask]_vars

(***************************************************************************)
(* HunterManager.update called with a range of player positions on the     *)
(* hunters of a freshly built environment; ret keeps the hunters as they   *)
(* were before the last call and the position it was called with           *)
(***************************************************************************)
CfgPatrol ==
    [CfgStalk EXCEPT !.hunters.count = 3, !.hunters.min_detection_radius = 2,
                     !.hunters.max_detection_radius = 2]

HuntScenarios ==
    {[config |-> CfgHunt, seed |-> 1], [config |-> CfgPatrol, seed |-> 5]}

InitHunt ==
    /\ \E sc \in HuntScenarios : env = Environment(sc.config, sc.seed, 0)
    /\ env2 = NoEnv
    /\ obs = EmptyDict
    /\ result = NoResult
    /\ ret = [calls |-> 0]

UpdateHunters(px, py) ==
    /\ ret.calls < MaxCalls
    /\ \E r \in {update(env.world, env.hunter_manager.hunters, px, py, env.world.rng)} :
          /\ env' = [env EXCEPT !.hunter_manager.hunters = r.hunters, !.world.rng = r.rng]
          /\ ret' = [calls |-> ret.calls + 1, player_x |-> px, player_y |-> py,
                     before |-> env.hunter_manager.hunters, killer_id |-> r.killer_id]
    /\ UNCHANGED <<env2, obs, result>>

NextHunt == \E px \in SpawnCoords, py \in SpawnCoords : UpdateHunters(px, py)

SpecHunt == InitHunt /\ [][NextHunt]_vars

(***************************************************************************)
(* eval.runner.run_episode, headless: ret holds the runner's locals        *)
(* (agent, step, where the call stands); Environment.step is called once   *)
(* per completed loop iteration                                            *)
(***************************************************************************)
\* the agent types of make_agent that the episodes are run with
AgentTypes == {"random", "heuristic", "pso", "aco"}

\* the agents derived from SwarmAgentBase, the only class defining
\* get_clone_positions
SwarmAgents == {"pso", "gwo", "woa", "aco"}

hasattr_get_clone_positions(agent) == agent \in SwarmAgents

\* Environment.get_summary
get_summary(e) ==
    [survived_steps |-> e.organism.age_steps,
     survived_hours |-> Round1(e.organism.age_steps * e.config.sim.dt_hours),
     survived_days |-> ((e.organism.age_steps * e.config.sim.dt_hours + 1200) \div 2400) * 100,
     cause_of_death |-> e.organism.cause_of_death,
     final_pos |-> [x |-> e.organism.x, y |-> e.organism.y],
     trophy_found |-> e._trophy_won,
     outcome |-> IF e._trophy_won THEN "TROPHY_FOUND"
                 ELSE IF ~e.organism.alive THEN "DIED"
                 ELSE "RUNNING"]

\* Environment.finalize_replay
finalize_replay(e) == [e EXCEPT !.replay = set_summary(@, get_summary(e))]

InitEpisode ==
    /\ \E sc \in Scenarios : env = Environment(sc.config, sc.seed, 0)
    /\ env2 = NoEnv
    /\ obs = EmptyDict
    /\ result = NoResult
    /\ \E agent \in AgentTypes :
          ret = [agent |-> agent, pc |-> "loop", step |-> 0, raised |-> None]

\* the condition of the while loop
LoopCondition ==
    /\ ret.step < env.config.sim.max_steps
    /\ env.organism.alive
    /\ ~env._trophy_won

\* one iteration of the loop with the agent answering a: get_observation, act,
\* get_clone_positions, step; an agent without get_clone_positions raises
\* AttributeError there, which leaves the function through the finally block
RunIteration(a) ==
    /\ ret.pc = "loop"
    /\ LoopCondition
    /\ \E o \in {get_observation(env)} :
          /\ obs' = o.obs
          /\ IF ~hasattr_get_clone_positions(ret.agent)
             THEN /\ env' = o.env
                  /\ ret' = [ret EXCEPT !.pc = "raised", !.raised = "AttributeError"]
                  /\ UNCHANGED result
             ELSE \E r \in {step(o.env, a)} :
                     /\ env' = r.env
                     /\ result' = r.result
                     /\ ret' = [ret EXCEPT !.step = @ + 1,
                                           !.pc = IF r.result.dead \/ r.result.trophy_won
                                                  THEN "finalize" ELSE "loop"]
    /\ UNCHANGED env2

\* the loop condition fails
ExitLoop ==
    /\ ret.pc = "loop"
    /\ ~LoopCondition
    /\ ret' = [ret EXCEPT !.pc = "finalize"]
    /\ UNCHANGED <<env, env2, obs, result>>

\* env.finalize_replay() and the return of the replay data
ReturnReplay ==
    /\ ret.pc = "finalize"
    /\ env' = finalize_replay(env)
    /\ ret' = [ret EXCEPT !.pc = "returned"]
    /\ UNCHANGED <<env2, obs, result>>

NextEpisode ==
    \/ \E a \in ActionType : RunIteration(a)
    \/ ExitLoop
    \/ ReturnReplay

SpecEpisode == InitEpisode /\ [][NextEpisode]_vars

(***************************************************************************)
(* agents.llm_agent.LLMAgent: env is the agent, obs the observation handed *)
(* to act, ret the frame of the running act (the provider the for loop is  *)
(* at, the attempt of the retry loop, the number of backend.call calls     *)
(* made per provider) and result the outcome of the last backend.call      *)
(***************************************************************************)
DEFAULT_PROVIDER_CHAIN == <<"gemini", "openai">>

\* LLMAgent.__init__; env_keys are the providers whose API key is set
LLMAgent(provider, env_keys, max_retries) ==
    [_providers |-> <<provider>>
                    \o SelectSeq(DEFAULT_PROVIDER_CHAIN,
                                 LAMBDA entry : entry # provider /\ entry \in env_keys),
     max_retries |-> max_retries,
     _quota_exhausted_providers |-> {},
     _active_provider |-> "None",
     call_count |-> 0,
     fallback_count |-> 0,
     provider_switches |-> 0]

\* what backend.call does: it raises _QuotaExhaustedError, raises another
\* Exception, or returns text: fenced in ``` or not, JSON or not, and if JSON
\* naming an action
BackendOutcomes ==
    {[raises |-> e, fenced |-> FALSE, json |-> FALSE, action |-> ""] :
        e \in {"_QuotaExhaustedError", "Exception"}}
    \cup {[raises |-> "", fenced |-> f, json |-> FALSE, action |-> ""] : f \in BOOLEAN}
    \cup {[raises |-> "", fenced |-> f, json |-> TRUE, action |-> a] :
            f \in BOOLEAN, a \in {"REST", "MOVE_N", "DRINK", "FLY"}}

\* a parser that accepts any action of ActionType (a faulty variant)
_parse_response_unmasked(raw, action_mask) ==
    IF ~raw.json THEN [raises |-> "JSONDecodeError"]
    ELSE IF raw.action \notin ActionType THEN [raises |-> "ValidationError"]
    ELSE [action |-> raw.action]

\* _parse_response: the fences are stripped, then json.loads, AgentAction(**data)
\* and the mask test; the action or the exception raised
_parse_response(raw, action_mask) ==
    IF ~raw.json THEN [raises |-> "JSONDecodeError"]
    ELSE IF raw.action \notin ActionType THEN [raises |-> "ValidationError"]
    ELSE IF \A k \in DOMAIN action_mask : action_mask[k] # raw.action
    THEN [raises |-> "ValueError"]
    ELSE [action |-> raw.action]

\* self._heuristic_fallback.act(observation)
HeuristicAgent_act(observation) == [by |-> "HeuristicAgent", observation |-> observation]

MaxActs == 2

ActionMasks == {<<"REST", "HIDE", "SIGNAL", "MOVE_N", "BUILD_SHELTER">>,
                <<"REST", "HIDE", "SIGNAL", "MOVE_S", "DRINK">>}

InitLLM ==
    /\ \E provider \in {"gemini", "openai", "anthropic"}, env_keys \in SUBSET {"gemini", "openai"},
          max_retries \in {0, 2} :
          env = LLMAgent(provider, env_keys, max_retries)
    /\ env2 = NoEnv
    /\ obs = EmptyDict
    /\ result = NoResult
    /\ ret = [pc |-> "idle", acts |-> 0]

\* act is called: the prompt is built and the for loop over self._providers starts
Act(action_mask) ==
    /\ ret.pc \in {"idle", "returned"}
    /\ ret.acts < MaxActs
    /\ obs' = [action_mask |-> action_mask]
    /\ ret' = [pc |-> "for", acts |-> ret.acts + 1, backend |-> 1, attempt |-> 0,
               calls |-> [k \in DOMAIN env._providers |-> 0],
               exhausted_before |-> env._quota_exhausted_providers]
    /\ result' = NoResult
    /\ UNCHANGED <<env, env2>>

\* the for loop is at a backend
AtBackend == ret.pc = "for" /\ ret.backend <= Len(env._providers)

\* if backend.name in self._quota_exhausted_providers: continue
SkipExhausted ==
    /\ AtBackend
    /\ env._providers[ret.backend] \in env._quota_exhausted_providers
    /\ ret' = [ret EXCEPT !.backend = @ + 1, !.attempt = 0]
    /\ UNCHANGED <<env, env2, obs, result>>

\* one pass of the retry loop: backend.call, _parse_response and the handlers
BackendCall(outcome) ==
    /\ AtBackend
    /\ env._providers[ret.backend] \notin env._quota_exhausted_providers
    /\ ret.attempt < 1 + env.max_retries
    /\ result' = [backend |-> ret.backend, outcome |-> outcome]
    /\ \E parsed \in {_parse_response(outcome, obs.action_mask)} :
          IF outcome.raises = "_QuotaExhaustedError"
          THEN /\ env' = [env EXCEPT
                            !._quota_exhausted_providers = @ \cup {env._providers[ret.backend]},
                            !.provider_switches = @ + 1]
               /\ ret' = [ret EXCEPT !.calls[ret.backend] = @ + 1,
                                     !.backend = @ + 1, !.attempt = 0]
          ELSE IF outcome.raises = "" /\ "action" \in DOMAIN parsed
          THEN /\ env' = [env EXCEPT !.call_count = @ + 1,
                                     !._active_provider = env._providers[ret.backend]]
               /\ ret' = [ret EXCEPT !.calls[ret.backend] = @ + 1, !.pc = "returned"]
                         @@ [returned |-> [action |-> parsed.action]]
          ELSE /\ env' = env
               /\ ret' = [ret EXCEPT !.calls[ret.backend] = @ + 1, !.attempt = @ + 1]
    /\ UNCHANGED <<env2, obs>>

\* the retry loop ran out without a break: the else clause, continue
RetriesExhausted ==
    /\ AtBackend
    /\ env._providers[ret.backend] \notin env._quota_exhausted_providers
    /\ ret.attempt >= 1 + env.max_retries
    /\ ret' = [ret EXCEPT !.backend = @ + 1, !.attempt = 0]
    /\ UNCHANGED <<env, env2, obs, result>>

\* the for loop is over: heuristic fallback
HeuristicFallback ==
    /\ ret.pc = "for"
    /\ ret.backend > Len(env._providers)
    /\ env' = [env EXCEPT !.fallback_count = @ + 1]
    /\ ret' = [ret EXCEPT !.pc = "returned"] @@ [returned |-> HeuristicAgent_act(obs)]
    /\ UNCHANGED <<env2, obs, result>>

NextLLM ==
    \/ \E action_mask \in ActionMasks : Act(action_mask)
    \/ SkipExhausted
    \/ \E outcome \in BackendOutcomes : BackendCall(outcome)
    \/ RetriesExhausted
    \/ HeuristicFallback

\* act runs on: the interpreter executes the next statement of a call in progress
SpecLLM == InitLLM /\ [][NextLLM]_vars /\ WF_vars(NextLLM)

(***************************************************************************)
(* Properties                                                              *)
(***************************************************************************)
GridNames == {"elevation", "terrain_id", "water_mask", "vegetation_biomass",
              "wildlife_risk", "shelter_quality", "movement_cost", "dist_to_water"}

Vitals == {"hydration", "energy", "fatigue", "injury", "infection"}

VitalsInRange(o) == \A v \in Vitals : o[v] >= 0 /\ o[v] <= 100000

\* C2: after step returns, and after the action application, apply_physiology,
\* check_wildlife_encounter and check_environmental_hazards inside it, each of
\* hydration, energy, fatigue, injury and infection lies in [0, 100].
C2_VitalsClamped ==
    /\ VitalsInRange(env.organism)
    /\ result # NoResult =>
          \A k \in 1..Len(result.mutations) : VitalsInRange(result.mutations[k])

C2_Witness ==
    /\ result # NoResult
    /\ result.before.hydration > 0
    /\ result.before.hydration < 800
    /\ result.mutations[2].hydration = 0

Crossed(o, p) ==
    [dehydration |-> o.hydration <= p.death_hydration,
     starvation |-> o.energy <= p.death_energy,
     hypothermia |-> o.core_temp_c <= p.death_core_temp_low,
     hyperthermia |-> o.core_temp_c >= p.death_core_temp_high,
     trauma |-> o.injury >= p.death_injury,
     infection |-> o.infection >= p.death_infection]

\* C3: check_death sets the cause to the first crossed threshold in the order
\* dehydration, starvation, hypothermia, hyperthermia, trauma, infection; with
\* no threshold crossed on a living organism it returns false and leaves
\* alive = true and cause = ALIVE.
C3_DeathPriority ==
    ret.calls > 0 =>
        LET c == Crossed(ret.before, env.config.physiology)
            cause == env.organism.cause_of_death
        IN /\ c.dehydration => cause = "DEHYDRATION"
           /\ ~c.dehydration /\ c.starvation => cause = "STARVATION"
           /\ ~c.dehydration /\ ~c.starvation /\ c.hypothermia => cause = "HYPOTHERMIA"
           /\ ~c.dehydration /\ ~c.starvation /\ ~c.hypothermia /\ c.hyperthermia
                 => cause = "HYPERTHERMIA"
           /\ ~c.dehydration /\ ~c.starvation /\ ~c.hypothermia /\ ~c.hyperthermia
                 /\ c.trauma => cause = "TRAUMA"
           /\ ~c.dehydration /\ ~c.starvation /\ ~c.hypothermia /\ ~c.hyperthermia
                 /\ ~c.trauma /\ c.infection => cause = "INFECTION"
           /\ (\E k \in DOMAIN c : c[k]) => ~env.organism.alive
           /\ (\A k \in DOMAIN c : ~c[k]) /\ ret.before.alive
                 => ~ret.dead /\ env.organism.alive /\ cause = "ALIVE"

C3_Witness ==
    /\ ret.calls = 1
    /\ ret.before.alive
    /\ LET c == Crossed(ret.before, env.config.physiology)
       IN ~c.dehydration /\ c.starvation /\ c.hyperthermia /\ c.trauma /\ c.infection
    /\ env.organism.cause_of_death = "STARVATION"
    /\ ret.dead

\* C4: once alive is false the cause of death never changes again: neither in
\* the death check of the step in which a hunter kill set HUNTED, nor in any
\* later step.
C4_CauseNeverChanges ==
    result # NoResult =>
        /\ ~result.before_death.alive
              => env.organism.cause_of_death = result.before_death.cause_of_death
        /\ ~result.before.alive
              => env.organism.cause_of_death = result.before.cause_of_death

\* C5: check_death returns true exactly when that call moved the organism from
\* alive to dead; on an organism already dead it reports no transition and
\* leaves alive and cause unchanged, so the step result's dead field is true
\* only on the tick of a physiological death.
C5_DeadIffTransition ==
    result # NoResult =>
        /\ result.dead <=> (result.before_death.alive /\ ~env.organism.alive)
        /\ ~result.before_death.alive =>
              /\ ~result.dead
              /\ ~env.organism.alive
              /\ env.organism.cause_of_death = result.before_death.cause_of_death

VisibleFields == {"id", "pos", "distance", "is_chasing"}

\* what a complete and exact answer of get_visible_hunters is for environment e
\* and radius r
ExactlyVisible(list, e, r) ==
    LET hs == e.hunter_manager.hunters
        d(k) == Abs(hs[k].x - e.organism.x) + Abs(hs[k].y - e.organism.y)
        near == {k \in 1..Len(hs) : d(k) <= r}
    IN /\ Len(list) = Cardinality(near)
       /\ {list[j] : j \in 1..Len(list)} =
             {[id |-> hs[k].id, pos |-> [x |-> hs[k].x, y |-> hs[k].y],
               distance |-> d(k), is_chasing |-> hs[k].is_chasing] : k \in near}

\* C6: get_visible_hunters returns exactly the hunters at Manhattan distance
\* <= visibility_radius, each with only id, pos, distance and is_chasing; no
\* record of visible_hunters or of the observation's hunter_sighting_history
\* carries a detection_radius, at any tick.
C6_VisibleHunters ==
    /\ \A n \in 1..Len(env.hunter_sighting_history) :
          \A j \in 1..Len(env.hunter_sighting_history[n]) :
             DOMAIN env.hunter_sighting_history[n][j] = VisibleFields
    /\ result # NoResult =>
          ExactlyVisible(env.hunter_sighting_history[Len(env.hunter_sighting_history)],
                         env, VisRadius(env.config))
    /\ obs # EmptyDict =>
          /\ \A j \in 1..Len(obs.visible_hunters) :
                DOMAIN obs.visible_hunters[j] = VisibleFields
          /\ obs.timestep = env.step_count =>
                ExactlyVisible(obs.visible_hunters, env, VisRadius(env.config))
          /\ "hunter_sighting_history" \in DOMAIN obs =>
                \A n \in 1..Len(obs.hunter_sighting_history) :
                   /\ DOMAIN obs.hunter_sighting_history[n] = {"hunter_id", "sightings"}
                   /\ \A m \in 1..Len(obs.hunter_sighting_history[n].sightings) :
                         "detection_radius"
                            \notin DOMAIN obs.hunter_sighting_history[n].sightings[m]

C6_Witness ==
    /\ obs # EmptyDict
    /\ obs.timestep = env.step_count
    /\ Len(obs.visible_hunters) >= 1
    /\ Len(obs.visible_hunters) < Len(env.hunter_manager.hunters)
    /\ "hunter_sighting_history" \in DOMAIN obs
    /\ Len(obs.hunter_sighting_history) >= 1

\* the hunters at Manhattan distance <= 1 from the player, by list position
Adjacent(e) ==
    {k \in 1..Len(e.hunter_manager.hunters) :
        Abs(e.hunter_manager.hunters[k].x - e.organism.x)
          + Abs(e.hunter_manager.hunters[k].y - e.organism.y) <= 1}

C8_LastAdjacentWins ==
    result # NoResult /\ Adjacent(env) # {} =>
        result.killer_id = env.hunter_manager.hunters[SetMax(Adjacent(env))].id

C8_Witness ==
    /\ result # NoResult
    /\ Cardinality(Adjacent(env)) >= 2
    /\ result.killer_id = env.hunter_manager.hunters[SetMax(Adjacent(env))].id
    /\ result.killer_id # env.hunter_manager.hunters[SetMin(Adjacent(env))].id

\* C8 (as stated): the id returned is that of the first adjacent hunter in
\* iteration order.
C8_FirstAdjacentWins ==
    result # NoResult /\ Adjacent(env) # {} =>
        result.killer_id = env.hunter_manager.hunters[SetMin(Adjacent(env))].id

Chebyshev(e) ==
    Max(Abs(e.organism.x - e.trophy_manager.trophy_x),
        Abs(e.organism.y - e.trophy_manager.trophy_y))

\* C9: check_found returns true only within Chebyshev distance 1 of an enabled
\* trophy not found before; found never returns to false, every check_found
\* after it is true returns false, and trophy_won never reverts.
C9_FoundOnce ==
    [][/\ env.step_count' # env.step_count =>
             /\ result.found' =>
                   /\ Chebyshev(env') <= 1
                   /\ ~env.trophy_manager.found
                   /\ env.config.trophy.enabled
             /\ env.trophy_manager.found => ~result.found'
       /\ env.trophy_manager.found => env.trophy_manager.found'
       /\ env._trophy_won => env._trophy_won']_vars

C9_Witness ==
    /\ result # NoResult
    /\ env.trophy_manager.found
    /\ env._trophy_won
    /\ Chebyshev(env) <= 1
    /\ ~result.found

\* the placed trophy is on the map
TrophyInBounds ==
    /\ 0 <= ret.trophy_manager.trophy_x /\ ret.trophy_manager.trophy_x < env.world.w
    /\ 0 <= ret.trophy_manager.trophy_y /\ ret.trophy_manager.trophy_y < env.world.h

\* the placed trophy is off WATER and far enough from the spawn
TrophyOnLandAndFar ==
    /\ Terrain[env.world.terrain_id[Idx(ret.trophy_manager.trophy_x,
                                        ret.trophy_manager.trophy_y, env.world.w)] + 1]
          # "WATER"
    /\ Abs(ret.trophy_manager.trophy_x - ret.player_spawn[1])
         + Abs(ret.trophy_manager.trophy_y - ret.player_spawn[2])
          >= ret.min_distance_from_spawn

SpawnAttempts ==
    (env.world.rng.ctr - ret.rng_before.ctr - 2 * Len(ret.hunter_manager.hunters)) \div 2

Cardinals == {"N", "S", "E", "W"}

\* the vector from the observed player position to the trophy
HintDx == env.trophy_manager.trophy_x - obs.agent.pos.x

HintDy == env.trophy_manager.trophy_y - obs.agent.pos.y

\* the trophy hint of the observation has a trophy_direction exactly on the
\* ticks that are multiples of hint_interval, and it names the dominant axis
TrophyDirectionOnInterval ==
    /\ "trophy" \in DOMAIN obs
    /\ "trophy_direction" \in DOMAIN obs.trophy
          <=> obs.timestep % env.config.trophy.hint_interval = 0
    /\ "trophy_direction" \in DOMAIN obs.trophy =>
          obs.trophy.trophy_direction =
             IF Abs(HintDx) > Abs(HintDy)
             THEN (IF HintDx > 0 THEN "E" ELSE "W")
             ELSE (IF HintDy > 0 THEN "S" ELSE "N")

\* C12: with the trophy enabled the hint in the observation contains
\* trophy_direction iff tick mod hint_interval = 0, and then it is the cardinal
\* direction of the dominant axis of the vector from player to trophy; with the
\* trophy disabled the observation has no trophy entry.  (The directions of the
\* nearest water and of the best shelter are in the observation at every tick.)
C12_DirectionOnInterval ==
    obs # EmptyDict =>
        IF env.config.trophy.enabled
        THEN TrophyDirectionOnInterval
        ELSE "trophy" \notin DOMAIN obs

\* an observation taken after tick 0 that carries a trophy_direction
C12_Witness ==
    /\ obs # EmptyDict
    /\ obs.timestep > 0
    /\ "trophy" \in DOMAIN obs
    /\ "trophy_direction" \in DOMAIN obs.trophy
    /\ Abs(HintDx) > Abs(HintDy)

\* C12 as stated: in addition, on a tick that is not a multiple of hint_interval
\* no cardinal direction appears anywhere in the observation.
C12_NoCardinalOffInterval ==
    (obs # EmptyDict /\ env.config.trophy.enabled) =>
        /\ TrophyDirectionOnInterval
        /\ obs.timestep % env.config.trophy.hint_interval # 0 =>
              /\ obs.nearby.nearest_water.direction \notin Cardinals
              /\ obs.nearby.best_shelter.direction \notin Cardinals

\* the actions the mask must hold for the world w at cell (x, y)
ExpectedMask(w, x, y) ==
    {"REST", "HIDE", "SIGNAL"}
    \cup (IF 0 <= y - 1 THEN {"MOVE_N"} ELSE {})
    \cup (IF y + 1 < w.h THEN {"MOVE_S"} ELSE {})
    \cup (IF x + 1 < w.w THEN {"MOVE_E"} ELSE {})
    \cup (IF 0 <= x - 1 THEN {"MOVE_W"} ELSE {})
    \cup (IF w.water_availability[y * w.w + x] > 100 THEN {"DRINK"} ELSE {})
    \cup (IF w.vegetation_biomass[y * w.w + x] > 100 THEN {"FORAGE"} ELSE {})
    \cup (IF Terrain[w.terrain_id[y * w.w + x] + 1] # "WATER" THEN {"BUILD_SHELTER"} ELSE {})

\* C13: for every world and position the action mask is exactly REST, HIDE,
\* SIGNAL always; MOVE_N/S/E/W iff the cell at y-1 / y+1 / x+1 / x-1 is in
\* bounds; DRINK iff local water availability > 0.1; FORAGE iff local
\* vegetation biomass > 0.1; BUILD_SHELTER iff the terrain is not WATER; and no
\* action is listed twice.
C13_ActionMask ==
    ret # EmptyDict =>
        /\ {ret.action_mask[k] : k \in 1..Len(ret.action_mask)}
              = ExpectedMask(env.world, ret.x, ret.y)
        /\ Len(ret.action_mask) = Cardinality(ExpectedMask(env.world, ret.x, ret.y))

\* a mask at the border of the map, on a WATER cell: a move and BUILD_SHELTER
\* are left out and DRINK is offered
C13_Witness ==
    /\ ret # EmptyDict
    /\ \E k \in 1..Len(ret.action_mask) : ret.action_mask[k] = "DRINK"
    /\ \A k \in 1..Len(ret.action_mask) :
          ret.action_mask[k] \notin {"BUILD_SHELTER", "MOVE_N"}

\* the world fields fixed at generation
FixedFields == {"w", "h", "elevation", "terrain_id", "soil_id", "water_mask",
                "movement_cost", "dist_to_water", "vegetation_type_id",
                "wildlife_risk", "shelter_quality"}

\* C14: no step or get_observation call changes the terrain, elevation, soil,
\* movement-cost, water-mask or distance-to-water grid (nor the vegetation type,
\* wildlife risk or shelter quality grid); the world fields a call may modify
\* are air temperature, humidity, precipitation probability, water availability
\* and vegetation biomass, besides the state of the random generator.
C14_FixedGridsNeverChange ==
    [][/\ \A f \in FixedFields : env'.world[f] = env.world[f]
       /\ DOMAIN env'.world = DOMAIN env.world]_vars

\* two ticks have run, the last one a successful FORAGE (which writes the
\* vegetation grid), and an observation was built afterwards
C14_Witness ==
    /\ env.step_count = MaxSteps
    /\ result # NoResult
    /\ result.action = "FORAGE"
    /\ \E k \in 1..Len(result.events) : result.events[k].text = "Foraged: +{:.1f} energy"
    /\ obs # EmptyDict
    /\ obs.timestep = MaxSteps

\* C15: a headless run_episode ends, and when it has ended it has ended by
\* returning, with the organism dead, the trophy won or max_steps steps taken,
\* having called Environment.step at most max_steps times.
C15_EndsForOneOfThree ==
    ret.pc \in {"returned", "raised"} =>
        /\ ret.pc = "returned"
        /\ ret.step <= env.config.sim.max_steps
        /\ \/ ~env.organism.alive
           \/ env._trophy_won
           \/ ret.step = env.config.sim.max_steps

\* C18: run_episode completes with an agent that has act (and reset) only: the
\* episode of an agent without get_clone_positions never ends by an exception.
C18_ContractOnlyAgentCompletes ==
    ~hasattr_get_clone_positions(ret.agent) => ret.pc # "raised"

\* C16: get_observation is a pure read: in every state of an episode the call
\* leaves the environment as it was, and a second call made right after the
\* first returns an equal observation.
C16_ObservationIsPureRead ==
    Val([o \in {get_observation(env)} |->
            /\ o.env = env
            /\ get_observation(o.env).obs = o.obs])

\* C17: the replay record of an episode, saved with save() and read back with
\* load(), has the same canonical (sorted-keys) JSON string as the record in
\* memory.
C17_ReplayRoundTrip ==
    Val([data \in {finalize_replay(env).replay} |->
            /\ json_dumps_sort_keys(data) = json_dumps_sort_keys(load(save(data)))
            /\ DOMAIN json_dumps_sort_keys(data) = {"text"}])

\* the squared Euclidean distance from a hunter to (px, py)
DistanceSquared(h, px, py) == (h.x - px) * (h.x - px) + (h.y - py) * (h.y - py)

\* hunter h before and h2 after an update for the player at (px, py)
ChaseOrPatrol(w, h, h2, px, py) ==
    IF DistanceSquared(h, px, py) <= h.detection_radius * h.detection_radius
    THEN /\ h2.is_chasing
         /\ h2 = _move_toward(w, [h EXCEPT !.is_chasing = TRUE], px, py, h.chase_speed)
    ELSE /\ ~h2.is_chasing
         /\ h2.steps_since_direction_change # h.steps_since_direction_change
         /\ Abs(h2.x - h.x) + Abs(h2.y - h.y) <= 1

\* C20: after HunterManager.update(px, py) each hunter is chasing exactly if the
\* Euclidean distance from its position before the update to (px, py) is at
\* most its detection_radius; it then made the chase move, and otherwise a
\* patrol move, whatever its is_chasing flag was before.
C20_ChaseIffWithinRadius ==
    ret.calls > 0 =>
        /\ Len(env.hunter_manager.hunters) = Len(ret.before)
        /\ \A k \in DOMAIN ret.before :
              ChaseOrPatrol(env.world, ret.before[k], env.hunter_manager.hunters[k],
                            ret.player_x, ret.player_y)

\* after the second update one hunter has gone from patrol to chase and
\* another from chase to patrol
C20_Witness ==
    /\ ret.calls = 2
    /\ \E k \in DOMAIN ret.before :
          ~ret.before[k].is_chasing /\ env.hunter_manager.hunters[k].is_chasing
    /\ \E k \in DOMAIN ret.before :
          ret.before[k].is_chasing /\ ~env.hunter_manager.hunters[k].is_chasing

\* the number of backend.call calls one provider can get in one act
CallLimit == Max(0, 1 + env.max_retries)

\* backend k is done with in the running act: it was skipped or marked, or it
\* has had all its attempts
Finished(k) ==
    \/ env._providers[k] \in env._quota_exhausted_providers
    \/ ret.calls[k] = CallLimit

C19_ActState ==
    ret.pc \in {"for", "returned"} =>
        /\ \A k \in DOMAIN env._providers :
              /\ ret.calls[k] <= CallLimit
              /\ ret.calls[k] > 0 => /\ env._providers[k] \notin ret.exhausted_before
                                     /\ \A j \in 1..(k - 1) : Finished(j)
        /\ ret.pc = "returned" =>
              IF "by" \in DOMAIN ret.returned
              THEN /\ ret.returned = HeuristicAgent_act(obs)
                   /\ \A k \in DOMAIN env._providers : Finished(k)
              ELSE /\ \E k \in DOMAIN obs.action_mask :
                         obs.action_mask[k] = ret.returned.action
                   /\ result.outcome.raises = ""
                   /\ result.outcome.action = ret.returned.action

C19_ActStep ==
    /\ ret'.pc \in {"for", "returned"}
    /\ ret.pc = "for" =>
          /\ \A k \in DOMAIN env._providers :
                env._providers[k] \in env._quota_exhausted_providers
                    => ret'.calls[k] = ret.calls[k]
          /\ (result' # result /\ result'.outcome.raises = "_QuotaExhaustedError") =>
                /\ env._providers[ret.backend] \in env'._quota_exhausted_providers
                /\ ret'.backend = ret.backend + 1

\* C19: an act of LLMAgent returns: the providers are tried in chain order, one
\* marked quota-exhausted is never called, no provider gets more than
\* 1 + max_retries calls, a quota error marks the provider and ends its turn,
\* the action returned is one a provider gave that is in the action mask, or
\* else the heuristic fallback's once every provider is done with, and every
\* act started comes to its return.
C19_ActReturns ==
    /\ []C19_ActState
    /\ [][C19_ActStep]_vars
    /\ (ret.pc = "for") ~> (ret.pc = "returned")

\* the second act of an agent with two providers returned the fallback's
\* action: the first provider, marked in the first act, was skipped, and the
\* second used up its three attempts
C19_Witness ==
    /\ ret.pc = "returned"
    /\ ret.acts = 2
    /\ "by" \in DOMAIN ret.returned
    /\ Len(env._providers) = 2
    /\ env._providers[1] \in ret.exhausted_before
    /\ ret.calls = <<0, 3>>

\* the cell of hunter h is not WATER
OnLand(w, h) == in_bounds(w, h.x, h.y) /\ terrain_at(w, h.x, h.y) # "WATER"

\* the position after one chase sub-step from (x, y) toward (px, py), as a
\* pair: one cell along the axis with the larger offset (x on ties), else one
\* cell along the other axis, else none
ChaseSubStep(w, x, y, px, py) ==
    LET along_x == Abs(px - x) >= Abs(py - y)
        first == IF along_x THEN <<x + Sign(px - x), y>> ELSE <<x, y + Sign(py - y)>>
        other == IF along_x THEN <<x, y + Sign(py - y)>> ELSE <<x + Sign(px - x), y>>
    IN IF terrain_at(w, first[1], first[2]) # "WATER" THEN first
       ELSE IF in_bounds(w, other[1], other[2]) /\ terrain_at(w, other[1], other[2]) # "WATER"
       THEN other
       ELSE <<x, y>>

RECURSIVE ChaseSubSteps(_, _, _, _, _, _)
ChaseSubSteps(w, x, y, px, py, n) ==
    IF n = 0 THEN <<x, y>>
    ELSE Val([c \in {ChaseSubStep(w, x, y, px, py)} |->
                ChaseSubSteps(w, c[1], c[2], px, py, n - 1)])

\* C21: a hunter that chased in an update stands where chase_speed sub-steps
\* take it, each one cell toward the player along the axis with the larger
\* offset or, that cell being WATER, along the other axis if that cell is free;
\* it moved at most chase_speed cells, is no farther from the player in
\* Manhattan distance than before, and is not on a water cell.
C21_ChaseMove ==
    ret.calls > 0 =>
        \A k \in DOMAIN ret.before :
            env.hunter_manager.hunters[k].is_chasing =>
                Val([h \in {ret.before[k]} |->
                Val([h2 \in {env.hunter_manager.hunters[k]} |->
                    /\ <<h2.x, h2.y>> = ChaseSubSteps(env.world, h.x, h.y, ret.player_x,
                                                      ret.player_y, h.chase_speed)
                    /\ Abs(h2.x - h.x) + Abs(h2.y - h.y) <= h.chase_speed
                    /\ manhattan_distance_to(h2, ret.player_x, ret.player_y)
                          <= manhattan_distance_to(h, ret.player_x, ret.player_y)
                    /\ OnLand(env.world, h2)])])

\* a chasing hunter went round a water cell: its first sub-step was along the
\* axis with the smaller offset
C21_Witness ==
    /\ ret.calls > 0
    /\ \E k \in DOMAIN ret.before :
          /\ env.hunter_manager.hunters[k].is_chasing
          /\ LET h == ret.before[k]
                 along_x == Abs(ret.player_x - h.x) >= Abs(ret.player_y - h.y)
                 first == IF along_x THEN <<h.x + Sign(ret.player_x - h.x), h.y>>
                          ELSE <<h.x, h.y + Sign(ret.player_y - h.y)>>
             IN /\ terrain_at(env.world, first[1], first[2]) = "WATER"
                /\ <<env.hunter_manager.hunters[k].x, env.hunter_manager.hunters[k].y>>
                      # <<h.x, h.y>>

(***************************************************************************)
(* One hunter on patrol: Hunter._patrol is called tick after tick with     *)
(* the two values it may draw chosen freely; env holds the hunter, ret the *)
(* last two ticks                                                          *)
(***************************************************************************)
\* the terrain the hunter patrols
PatrolWorld == Environment(CfgPatrol, 4, 0).world

\* the largest tick count a hunter reaches before its heading is redrawn
MaxSinceChange == 7

\* what ret holds of a tick that has not happened
NoTick == [happened |-> FALSE]

InitPatrol ==
    /\ \E x \in 0..(MapW - 1), y \in 0..(MapH - 1), d \in 1..4 :
          /\ terrain_at(PatrolWorld, x, y) # "WATER"
          /\ env = [hunter |-> Hunter(0, x, y, 3, 2, 1, PatrolDirs[d])]
    /\ env2 = NoEnv
    /\ obs = EmptyDict
    /\ result = NoResult
    /\ ret = [last |-> NoTick, prev |-> NoTick]

\* the cell one step from (x, y) along heading d is in bounds and not WATER
FreeAlong(w, x, y, d) ==
    in_bounds(w, x + d[1], y + d[2]) /\ terrain_at(w, x + d[1], y + d[2]) # "WATER"

Reversed(d) == <<-d[1], -d[2]>>

\* the heading was redrawn on the tick t
Redrawn(t) == t.before.steps_since_direction_change + 1 > 5 /\ t.u < 200

\* what ret keeps of the tick t once the next one is made: whether the cell
\* ahead of or behind the hunter was free before t, whether the hunter (now h)
\* changed position on t, and whether its heading was redrawn on t
TickSummary(t, h) ==
    IF ~t.happened THEN NoTick
    ELSE [happened |-> TRUE,
          free |-> \/ FreeAlong(PatrolWorld, t.before.x, t.before.y, t.before.patrol_direction)
                   \/ FreeAlong(PatrolWorld, t.before.x, t.before.y,
                                Reversed(t.before.patrol_direction)),
          moved |-> h.x # t.before.x \/ h.y # t.before.y,
          redrawn |-> Redrawn(t)]

\* one call of _patrol; u and k are the values of rng.random() and
\* rng.integers(0, 4)
PatrolTick(u, k) ==
    /\ \/ env.hunter.steps_since_direction_change + 1 < MaxSinceChange
       \/ u < 200
    /\ \E h \in {PatrolDrawn(PatrolWorld, env.hunter, u, k)} :
          /\ env' = [env EXCEPT !.hunter = h]
          /\ ret' = [last |-> [happened |-> TRUE, before |-> env.hunter, u |-> u, k |-> k],
                     prev |-> TickSummary(ret.last, env.hunter)]
    /\ UNCHANGED <<env2, obs, result>>

\* a tick on which the heading is redrawn to PatrolDirs[k + 1]
Reassign(k) ==
    /\ env.hunter.steps_since_direction_change + 1 > 5
    /\ PatrolTick(100, k)

NextPatrol == \E u \in {100, 600}, k \in 0..3 : PatrolTick(u, k)

\* the generator is uniform: a hunter whose heading may be redrawn again and
\* again draws each of the four headings again and again
SpecPatrol ==
    /\ InitPatrol /\ [][NextPatrol]_vars /\ WF_vars(NextPatrol)
    /\ SF_vars(Reassign(0)) /\ SF_vars(Reassign(1))
    /\ SF_vars(Reassign(2)) /\ SF_vars(Reassign(3))

\* the heading in effect on the tick t
HeadingOf(t) == IF Redrawn(t) THEN PatrolDirs[t.k + 1] ELSE t.before.patrol_direction

\* C22: a patrolling hunter advances exactly one cell along its heading when
\* that cell is in bounds and not WATER, and otherwise stays and reverses its
\* heading; the heading is redrawn only when more than 5 patrol ticks have
\* passed since it was last redrawn, a bounce leaving that count running
C22_PatrolStep ==
    ret.last.happened =>
        LET t == ret.last
            b == t.before
            h == env.hunter
            d == HeadingOf(t)
        IN /\ FreeAlong(PatrolWorld, b.x, b.y, d) =>
                  /\ h.x = b.x + d[1] /\ h.y = b.y + d[2]
                  /\ h.patrol_direction = d
           /\ ~FreeAlong(PatrolWorld, b.x, b.y, d) =>
                  /\ h.x = b.x /\ h.y = b.y
                  /\ h.patrol_direction = Reversed(d)
           /\ h.patrol_direction \notin {b.patrol_direction, Reversed(b.patrol_direction)}
                  => b.steps_since_direction_change + 1 > 5
           /\ h.steps_since_direction_change =
                  IF Redrawn(t) THEN 0 ELSE b.steps_since_direction_change + 1
           /\ OnLand(PatrolWorld, h)

\* a hunter bounced with more than 5 ticks on its count and was not redrawn
C22_Witness ==
    /\ ret.last.happened
    /\ ~Redrawn(ret.last)
    /\ ~FreeAlong(PatrolWorld, ret.last.before.x, ret.last.before.y, HeadingOf(ret.last))
    /\ env.hunter.steps_since_direction_change > 5
    /\ env.hunter.patrol_direction = Reversed(ret.last.before.patrol_direction)

\* the hunter changed position on the last tick
MovedLast ==
    /\ ret.last.happened
    /\ env.hunter.x # ret.last.before.x \/ env.hunter.y # ret.last.before.y

HasFreeNeighbour(w, h) == \E d \in 1..4 : FreeAlong(w, h.x, h.y, PatrolDirs[d])

C23_MovesWithinTwoTicksUnlessRedrawn ==
    (ret.prev.happened /\ ret.prev.free /\ ~ret.prev.redrawn /\ ~Redrawn(ret.last))
        => (ret.prev.moved \/ MovedLast)

MaxWalkSteps == 6

DirectedSteps == 4

InitWalk ==
    /\ \E sc \in HuntScenarios : env = Environment(sc.config, sc.seed, 0)
    /\ env2 = NoEnv
    /\ obs = EmptyDict
    /\ result = NoResult
    /\ ret = EmptyDict

Walk(a) ==
    /\ env.step_count < MaxWalkSteps
    /\ env.step_count < DirectedSteps => a \in {"MOVE_N", "MOVE_W"}
    /\ \E r \in {step(env, a)} : env' = r.env /\ result' = r.result
    /\ UNCHANGED <<env2, obs, ret>>

NextWalk == \E a \in ActionType : Walk(a)

SpecWalk == InitWalk /\ [][NextWalk]_vars

\* the last step was a movement action whose target cell is in bounds
MoveAllowed ==
    /\ result.action \in MoveActions
    /\ in_bounds(env.world, result.before.x + ACTION_DIRECTION(result.action)[1],
                 result.before.y + ACTION_DIRECTION(result.action)[2])

\* C24: the organism is on an in-bounds cell and every hunter on an in-bounds
\* cell that is not WATER; a step moves the organism only for a movement
\* action whose target is in bounds, and then by exactly one cell in the
\* action's direction
C24_PositionsValid ==
    /\ in_bounds(env.world, env.organism.x, env.organism.y)
    /\ \A i \in DOMAIN env.hunter_manager.hunters :
          OnLand(env.world, env.hunter_manager.hunters[i])
    /\ result # NoResult =>
          IF MoveAllowed
          THEN /\ env.organism.x = result.before.x + ACTION_DIRECTION(result.action)[1]
               /\ env.organism.y = result.before.y + ACTION_DIRECTION(result.action)[2]
               /\ Abs(env.organism.x - result.before.x)
                    + Abs(env.organism.y - result.before.y) = 1
          ELSE /\ env.organism.x = result.before.x
               /\ env.organism.y = result.before.y

\* a movement action at the edge of the map left the organism where it was
C24_Witness ==
    /\ result # NoResult
    /\ result.action \in MoveActions
    /\ ~MoveAllowed
    /\ env.organism.x = result.before.x /\ env.organism.y = result.before.y
    /\ env.hunter_manager.hunters # <<>>

\* C25: the trophy is never won by a dead organism, so in the summary
\* TROPHY_FOUND comes with cause of death ALIVE, DIED exactly with a cause of
\* death other than ALIVE, and RUNNING exactly with a living organism that has
\* not found the trophy
C25_WinExcludesDeath ==
    LET summary == get_summary(env)
    IN /\ ~(env._trophy_won /\ ~env.organism.alive)
       /\ summary.outcome = "TROPHY_FOUND" => summary.cause_of_death = "ALIVE"
       /\ summary.outcome = "DIED" <=> summary.cause_of_death # "ALIVE"
       /\ summary.outcome = "RUNNING" <=> (env.organism.alive /\ ~env._trophy_won)

(***************************************************************************)
(* A shelter built once and left alone: ret.flags lists, for every step    *)
(* from the one that builds, the has_shelter flag the step handed to the   *)
(* physiology and hazard evaluation                                        *)
(***************************************************************************)
MaxShelterSteps == 14

\* the steps an episode may make before the shelter is built
MaxStepsBeforeBuild == 1

\* the actions tried on the steps around the build
ShelterActions == {"REST", "MOVE_E", "HIDE"}

ShelterScenarios ==
    {[config |-> CfgDefaults, seed |-> 1], [config |-> CfgFull, seed |-> 2]}

\* the has_shelter flag after the "Shelter durability" block of the last step
FlagAtEvaluation(r) == ShelterDurability(r.mutations[1]).has_shelter

InitShelter ==
    /\ \E sc \in ShelterScenarios : env = Environment(sc.config, sc.seed, 0)
    /\ env2 = NoEnv
    /\ obs = EmptyDict
    /\ result = NoResult
    /\ ret = [flags |-> <<>>]

StepBeforeBuild(a) ==
    /\ ret.flags = <<>>
    /\ env.step_count < MaxStepsBeforeBuild
    /\ \E r \in {step(env, a)} : env' = r.env /\ result' = r.result
    /\ UNCHANGED <<env2, obs, ret>>

Build ==
    /\ ret.flags = <<>>
    /\ \E r \in {step(env, "BUILD_SHELTER")} :
          /\ env' = r.env
          /\ result' = r.result
          /\ ret' = [flags |-> <<FlagAtEvaluation(r.result)>>]
    /\ UNCHANGED <<env2, obs>>

StepAfterBuild(a) ==
    /\ ret.flags # <<>>
    /\ Len(ret.flags) < MaxShelterSteps
    /\ Len(ret.flags) > 1 => a = "REST"
    /\ \E r \in {step(env, a)} :
          /\ env' = r.env
          /\ result' = r.result
          /\ ret' = [flags |-> Append(ret.flags, FlagAtEvaluation(r.result))]
    /\ UNCHANGED <<env2, obs>>

NextShelter ==
    \/ \E a \in ShelterActions : StepBeforeBuild(a)
    \/ Build
    \/ \E a \in ShelterActions : StepAfterBuild(a)

SpecShelter == InitShelter /\ [][NextShelter]_vars

\* C26: counting the step that builds it, a shelter that is not rebuilt is up
\* for the physiology and hazard evaluation of exactly the first 12 steps;
\* whenever has_shelter holds at the end of a step the durability left is at
\* least 1
C26_ShelterLastsTwelveSteps ==
    /\ \A k \in 1..Len(ret.flags) : ret.flags[k] = (k <= 12)
    /\ env.organism.has_shelter => env.organism.shelter_durability >= 1

\* the same with 11 steps
ShelterLastsElevenSteps ==
    /\ \A k \in 1..Len(ret.flags) : ret.flags[k] = (k <= 11)
    /\ env.organism.has_shelter => env.organism.shelter_durability >= 1

\* the Euclidean distance from (x, y) to the trophy
TrophyDistance(tm, x, y) ==
    Sqrt((x - tm.trophy_x) * (x - tm.trophy_x) + (y - tm.trophy_y) * (y - tm.trophy_y))

\* C27: with warm/cold hints enabled, an observation of the present tick says
\* 'warmer' iff the distance to the trophy is below the previous tick's
\* distance minus 0.5, 'colder' iff it is above that distance plus 0.5 and
\* 'same' otherwise; the bucket is very_close below 5, close below 15,
\* moderate below 30, else far
C27_WarmerColderThanPreviousTick ==
    (/\ result # NoResult
     /\ obs # EmptyDict
     /\ obs.timestep = env.step_count
     /\ "trophy" \in DOMAIN obs
     /\ env.config.trophy.warm_cold_enabled)
    => \E dist \in {TrophyDistance(env.trophy_manager, env.organism.x, env.organism.y)},
          prev \in {TrophyDistance(env.trophy_manager, result.before.x, result.before.y)} :
          /\ obs.trophy.trophy_temperature =
                IF dist < prev - 500 THEN "warmer"
                ELSE IF dist > prev + 500 THEN "colder"
                ELSE "same"
          /\ obs.trophy.trophy_distance_approx =
                IF dist < 5000 THEN "very_close"
                ELSE IF dist < 15000 THEN "close"
                ELSE IF dist < 30000 THEN "moderate"
                ELSE "far"

\* C28: a cell's terrain is WATER iff its water mask is set; every WATER cell
\* is at distance 0 from water with water availability 1.0, every other cell
\* at distance 1 or more
C28_WaterTerrainIffWaterMask ==
    \A x \in 0..(env.world.w - 1), y \in 0..(env.world.h - 1) :
       \E i \in {Idx(x, y, env.world.w)} :
          /\ terrain_at(env.world, x, y) = "WATER" <=> env.world.water_mask[i]
          /\ terrain_at(env.world, x, y) = "WATER" =>
                (env.world.dist_to_water[i] = 0 /\ env.world.water_availability[i] = 1000)
          /\ terrain_at(env.world, x, y) # "WATER" => env.world.dist_to_water[i] >= 1

\* the action a is in the action mask of the state e
InMask(e, a) ==
    \E k \in DOMAIN _get_action_mask(e.world, e.organism.x, e.organism.y) :
       _get_action_mask(e.world, e.organism.x, e.organism.y)[k] = a

\* a step whose action is absent from the mask of the state it starts from:
\* after the "Apply action" block the organism has its position, hydration,
\* energy and shelter as before and the vegetation is as before
MaskedStepHasNoEffect ==
    (result' # result /\ ~InMask(env, result'.action)) =>
        /\ result'.mutations[1].x = env.organism.x
        /\ result'.mutations[1].y = env.organism.y
        /\ result'.mutations[1].hydration <= env.organism.hydration
        /\ result'.mutations[1].energy <= env.organism.energy
        /\ result'.mutations[1].has_shelter = env.organism.has_shelter
        /\ result'.mutations[1].shelter_durability = env.organism.shelter_durability
        /\ ApplyAction(env.organism, env.world, result'.action,
                       env.config.sim.dt_hours).world.vegetation_biomass
              = env.world.vegetation_biomass

\* C29: an action absent from the state's action mask has no action-specific
\* effect when passed to step: position unchanged, no hydration or energy
\* gained, no vegetation consumed, no shelter built
C29_MaskedActionHasNoEffect == [][MaskedStepHasNoEffect]_vars

(***************************************************************************)
(* _compute_dist_to_water on every water mask of a small grid: env holds   *)
(* the grid, ret the distances computed for it                             *)
(***************************************************************************)
DistW == 4

DistH == 3

InitDist ==
    /\ \E mask \in [Cells(DistW, DistH) -> BOOLEAN] :
          env = [w |-> DistW, h |-> DistH, water_mask |-> mask]
    /\ env2 = NoEnv
    /\ obs = EmptyDict
    /\ result = NoResult
    /\ ret = EmptyDict

ComputeDistToWater ==
    /\ ret = EmptyDict
    /\ ret' = [dist_to_water |-> _compute_dist_to_water(env.w, env.h, env.water_mask)]
    /\ UNCHANGED <<env, env2, obs, result>>

NextDist == ComputeDistToWater

SpecDist == InitDist /\ [][NextDist]_vars

\* the Manhattan distance between the cells a and b of a grid of width w
Manhattan(a, b, w) ==
    Abs(CellX(a, w) - CellX(b, w)) + Abs(CellY(a, w) - CellY(b, w))

\* the water cells of the grid
WaterCells == {c \in Cells(env.w, env.h) : env.water_mask[c]}

\* C30: dist_to_water of a cell is the least Manhattan distance to a water
\* cell, which is 0 on water cells, and 9999 on every cell of a grid without
\* water
C30_DistToWaterIsManhattan ==
    ret # EmptyDict =>
        \A c \in Cells(env.w, env.h) :
           IF WaterCells = {}
           THEN ret.dist_to_water[c] = 9999
           ELSE /\ \E wc \in WaterCells : ret.dist_to_water[c] = Manhattan(c, wc, env.w)
                /\ \A wc \in WaterCells : ret.dist_to_water[c] <= Manhattan(c, wc, env.w)
                /\ env.water_mask[c] <=> ret.dist_to_water[c] = 0

\* one water cell in a corner, the opposite corner at the largest distance
C30_Witness ==
    /\ ret # EmptyDict
    /\ WaterCells = {Idx(DistW - 1, 0, DistW)}
    /\ ret.dist_to_water[Idx(0, DistH - 1, DistW)] = (DistW - 1) + (DistH - 1)

====
